---------------------------- MODULE Spec2Model ----------------------------
(***************************************************************************)
(* A model of authingy: the sealed-state codec (src/src/crypto.ts), the    *)
(* orchestrator's authorize / callback (authingy.ts, kept in               *)
(* src/unnamed/part_002) and the hand-written code exchange of the X and   *)
(* Discord providers (src/src/providers/x.ts, discord.ts).                 *)
(*                                                                         *)
(* Strings are sequences of code points, buffers are sequences of bytes    *)
(* (0..255).  JavaScript values are records [t |-> tag, v |-> payload].    *)
(***************************************************************************)
EXTENDS Integers, Sequences, FiniteSets, TLC

(***************************************************************************)
(* Characters and strings.                                                 *)
(***************************************************************************)

\* The printable ASCII characters, in code order starting at U+0020 (the
\* grave accent, which a string literal cannot hold, is spelled out).
AsciiChars ==
  << " ", "!", "\"", "#", "$", "%", "&", "'", "(", ")", "*", "+", ",", "-",
     ".", "/", "0", "1", "2", "3", "4", "5", "6", "7", "8", "9", ":", ";",
     "<", "=", ">", "?", "@", "A", "B", "C", "D", "E", "F", "G", "H", "I",
     "J", "K", "L", "M", "N", "O", "P", "Q", "R", "S", "T", "U", "V", "W",
     "X", "Y", "Z", "[", "\\", "]", "^", "_", "grave", "a", "b", "c", "d", "e",
     "f", "g", "h", "i", "j", "k", "l", "m", "n", "o", "p", "q", "r", "s",
     "t", "u", "v", "w", "x", "y", "z", "{", "|", "}", "~" >>

\* The code point of each printable ASCII character.
OrdTable ==
  [c \in {AsciiChars[i] : i \in 1..Len(AsciiChars)} |->
     31 + (CHOOSE i \in 1..Len(AsciiChars) : AsciiChars[i] = c)]

\* The code point of a printable ASCII character.
Ord(c) == OrdTable[c]

\* A string literal, written as a tuple of characters, as its code points.
Str(cs) == [i \in 1..Len(cs) |-> Ord(cs[i])]

RECURSIVE Flatten(_)
\* The concatenation of a sequence of sequences.
Flatten(ss) ==
  IF Len(ss) = 0 THEN << >>
  ELSE IF Len(ss) = 1 THEN ss[1]
  ELSE LET mid == Len(ss) \div 2
       IN  Flatten(SubSeq(ss, 1, mid)) \o Flatten(SubSeq(ss, mid + 1, Len(ss)))

Min(S) == CHOOSE x \in S : \A y \in S : x <= y

\* String.prototype.substring(start, end): indices are 0-based, end is
\* exclusive, both are clamped to [0, length] and swapped when start > end.
Substring(s, start, end) ==
  LET clamp(x) == IF x < 0 THEN 0 ELSE IF x > Len(s) THEN Len(s) ELSE x
      a == clamp(start)
      b == clamp(end)
      lo == IF a <= b THEN a ELSE b
      hi == IF a <= b THEN b ELSE a
  IN  SubSeq(s, lo + 1, hi)

(***************************************************************************)
(* Buffer <-> string conversions of Node's Buffer.                         *)
(***************************************************************************)

\* The digits Buffer.toString('hex') and cipher.update(.., 'hex') write.
HexDigitChars ==
  Str(<< "0", "1", "2", "3", "4", "5", "6", "7", "8", "9",
         "a", "b", "c", "d", "e", "f" >>)

\* buf.toString('hex'): two lower-case digits per byte.
HexEncode(bytes) ==
  [i \in 1..(2 * Len(bytes)) |->
     LET b == bytes[(i + 1) \div 2]
     IN  HexDigitChars[(IF i % 2 = 1 THEN b \div 16 ELSE b % 16) + 1]]

\* The value of one hex digit, either case; -1 for any other character.
Unhex(c) ==
  IF c \in Ord("0")..Ord("9") THEN c - Ord("0")
  ELSE IF c \in Ord("a")..Ord("f") THEN c - Ord("a") + 10
  ELSE IF c \in Ord("A")..Ord("F") THEN c - Ord("A") + 10
  ELSE -1

\* Buffer.from(s, 'hex'): decodes pairs of digits, ignores a trailing odd
\* character and stops at the first pair that is not two hex digits.
HexDecode(s) ==
  LET n == Len(s) \div 2
      bad == {i \in 1..n : Unhex(s[2 * i - 1]) < 0 \/ Unhex(s[2 * i]) < 0}
      k == IF bad = {} THEN n ELSE Min(bad) - 1
  IN  [i \in 1..k |-> 16 * Unhex(s[2 * i - 1]) + Unhex(s[2 * i])]

\* The UTF-8 bytes of one code point (up to U+FFFF).
Utf8Char(cp) ==
  IF cp < 128 THEN << cp >>
  ELSE IF cp < 2048 THEN << 192 + (cp \div 64), 128 + (cp % 64) >>
  ELSE << 224 + (cp \div 4096), 128 + ((cp \div 64) % 64), 128 + (cp % 64) >>

\* cipher.update(plainText, 'utf8', ..): the UTF-8 bytes of a string.
Utf8Encode(s) == Flatten([i \in 1..Len(s) |-> Utf8Char(s[i])])

RECURSIVE Utf8DecodeFrom(_, _)
\* buf.toString('utf8') from byte i on: an ill-formed byte decodes to U+FFFD.
Utf8DecodeFrom(b, i) ==
  LET cont(j) == j <= Len(b) /\ b[j] \in 128..191
      repl == 65533
  IN  IF i > Len(b) THEN << >>
      ELSE IF b[i] < 128 THEN << b[i] >> \o Utf8DecodeFrom(b, i + 1)
      ELSE IF b[i] \in 194..223 /\ cont(i + 1)
        THEN << (b[i] - 192) * 64 + (b[i + 1] - 128) >>
               \o Utf8DecodeFrom(b, i + 2)
      ELSE IF b[i] \in 224..239 /\ cont(i + 1) /\ cont(i + 2)
              /\ (b[i] - 224) * 4096 + (b[i + 1] - 128) * 64 >= 2048
        THEN << (b[i] - 224) * 4096 + (b[i + 1] - 128) * 64
                  + (b[i + 2] - 128) >> \o Utf8DecodeFrom(b, i + 3)
      ELSE << repl >> \o Utf8DecodeFrom(b, i + 1)

Utf8Decode(b) == Utf8DecodeFrom(b, 1)

(***************************************************************************)
(* JavaScript values and JSON.  A value is [t |-> tag, v |-> payload]:     *)
(* null, booleans, integers, strings, arrays (a sequence of values) and    *)
(* objects (a sequence of <<key, value>> pairs with distinct keys, in      *)
(* property order).  Numbers of the model are integers.                    *)
(***************************************************************************)

JNull == [t |-> "null", v |-> << >>]
JBool(b) == [t |-> "bool", v |-> b]
JNum(n) == [t |-> "num", v |-> n]
JStr(s) == [t |-> "str", v |-> s]
JArr(items) == [t |-> "arr", v |-> items]
JObj(props) == [t |-> "obj", v |-> props]

\* The value `false`.
JFalse == JBool(FALSE)

\* The own property names of an object.
Keys(o) == {o.v[i][1] : i \in 1..Len(o.v)}

\* o[k], for a property name k of object o.
Get(o, k) == o.v[CHOOSE i \in 1..Len(o.v) : o.v[i][1] = k][2]

\* Two objects with the same property names and the same values, in any
\* order (expect(..).toEqual(..) on flat mappings).
SameMapping(a, b) ==
  /\ a.t = "obj" /\ b.t = "obj"
  /\ Keys(a) = Keys(b)
  /\ \A k \in Keys(a) : Get(a, k) = Get(b, k)

\* obj[k] = val: replaces the value in place, or appends a new property.
SetProp(props, k, val) ==
  IF \E i \in 1..Len(props) : props[i][1] = k
  THEN [i \in 1..Len(props) |->
          IF props[i][1] = k THEN << k, val >> ELSE props[i]]
  ELSE Append(props, << k, val >>)

RECURSIVE DecimalDigits(_)
\* The decimal digits of a natural number.
DecimalDigits(n) ==
  IF n < 10 THEN << Ord("0") + n >>
  ELSE Append(DecimalDigits(n \div 10), Ord("0") + (n % 10))

\* Number::toString of an integer.
NumberToString(n) ==
  IF n < 0 THEN << Ord("-") >> \o DecimalDigits(0 - n) ELSE DecimalDigits(n)

\* A QuoteJSONString that escapes the quote and the control characters and
\* leaves a backslash as it is.
JsonEscapeCharNoBackslash(c) ==
  IF c = Ord("\"") THEN Str(<< "\\", "\"" >>)
  ELSE IF c = 10 THEN Str(<< "\\", "n" >>)
  ELSE IF c < 32
    THEN Str(<< "\\", "u", "0", "0" >>)
           \o << HexDigitChars[(c \div 16) + 1], HexDigitChars[(c % 16) + 1] >>
  ELSE << c >>

\* QuoteJSONString: the escapes JSON.stringify writes inside a string.
JsonEscapeChar(c) ==
  IF c = Ord("\"") THEN Str(<< "\\", "\"" >>)
  ELSE IF c = Ord("\\") THEN Str(<< "\\", "\\" >>)
  ELSE IF c = 8 THEN Str(<< "\\", "b" >>)
  ELSE IF c = 9 THEN Str(<< "\\", "t" >>)
  ELSE IF c = 10 THEN Str(<< "\\", "n" >>)
  ELSE IF c = 12 THEN Str(<< "\\", "f" >>)
  ELSE IF c = 13 THEN Str(<< "\\", "r" >>)
  ELSE IF c < 32
    THEN Str(<< "\\", "u", "0", "0" >>)
           \o << HexDigitChars[(c \div 16) + 1], HexDigitChars[(c % 16) + 1] >>
  ELSE << c >>

JsonQuote(s) ==
  << Ord("\"") >> \o Flatten([i \in 1..Len(s) |-> JsonEscapeChar(s[i])])
    \o << Ord("\"") >>

RECURSIVE JoinWith(_, _)
\* Array.prototype.join over a sequence of strings.
JoinWith(parts, sep) ==
  IF Len(parts) = 0 THEN << >>
  ELSE IF Len(parts) = 1 THEN parts[1]
  ELSE parts[1] \o sep \o JoinWith(Tail(parts), sep)

RECURSIVE JsonStringify(_)
\* JSON.stringify(value), without indentation.
JsonStringify(x) ==
  CASE x.t = "null" -> Str(<< "n", "u", "l", "l" >>)
    [] x.t = "bool" -> IF x.v THEN Str(<< "t", "r", "u", "e" >>)
                       ELSE Str(<< "f", "a", "l", "s", "e" >>)
    [] x.t = "num" -> NumberToString(x.v)
    [] x.t = "str" -> JsonQuote(x.v)
    [] x.t = "arr" ->
         << Ord("[") >>
           \o JoinWith([i \in 1..Len(x.v) |-> JsonStringify(x.v[i])],
                       << Ord(",") >>)
           \o << Ord("]") >>
    [] x.t = "obj" ->
         << Ord("{") >>
           \o JoinWith([i \in 1..Len(x.v) |->
                          JsonQuote(x.v[i][1]) \o << Ord(":") >>
                            \o JsonStringify(x.v[i][2])],
                       << Ord(",") >>)
           \o << Ord("}") >>

\* A parse step's result: ok, the value read, the position after it.
ParseFail == [ok |-> FALSE, v |-> JNull, i |-> 0]
ParseOk(val, next) == [ok |-> TRUE, v |-> val, i |-> next]

RECURSIVE SkipWs(_, _)
\* The first position from i on that holds no JSON white space.
SkipWs(s, i) ==
  IF i <= Len(s) /\ s[i] \in {9, 10, 13, 32} THEN SkipWs(s, i + 1) ELSE i

\* Whether the characters of `word` stand in s from position i on.
StartsWithAt(s, i, word) ==
  /\ i + Len(word) - 1 <= Len(s)
  /\ \A j \in 1..Len(word) : s[i + j - 1] = word[j]

RECURSIVE ScanString(_, _, _)
\* The rest of a JSON string from position i (after the opening quote).
ScanString(s, i, acc) ==
  IF i > Len(s) THEN ParseFail
  ELSE IF s[i] = Ord("\"") THEN ParseOk(JStr(acc), i + 1)
  ELSE IF s[i] < 32 THEN ParseFail
  ELSE IF s[i] # Ord("\\") THEN ScanString(s, i + 1, Append(acc, s[i]))
  ELSE IF i + 1 > Len(s) THEN ParseFail
  ELSE LET e == s[i + 1]
           simple == CASE e = Ord("\"") -> 34
                       [] e = Ord("\\") -> 92
                       [] e = Ord("/") -> 47
                       [] e = Ord("b") -> 8
                       [] e = Ord("f") -> 12
                       [] e = Ord("n") -> 10
                       [] e = Ord("r") -> 13
                       [] e = Ord("t") -> 9
                       [] OTHER -> -1
       IN  IF simple >= 0 THEN ScanString(s, i + 2, Append(acc, simple))
           ELSE IF e = Ord("u") /\ i + 5 <= Len(s)
                   /\ \A j \in 2..5 : Unhex(s[i + j]) >= 0
             THEN ScanString(s, i + 6,
                    Append(acc, 4096 * Unhex(s[i + 2]) + 256 * Unhex(s[i + 3])
                                  + 16 * Unhex(s[i + 4]) + Unhex(s[i + 5])))
           ELSE ParseFail

RECURSIVE ScanDigits(_, _, _)
\* A run of decimal digits from position i; acc is the value read so far.
ScanDigits(s, i, acc) ==
  IF i <= Len(s) /\ s[i] \in Ord("0")..Ord("9")
  THEN ScanDigits(s, i + 1, 10 * acc + (s[i] - Ord("0")))
  ELSE [v |-> acc, i |-> i]

\* A JSON integer at position i: -? (0 | [1-9][0-9]*).
ParseNumber(s, i) ==
  LET neg == s[i] = Ord("-")
      j == IF neg THEN i + 1 ELSE i
  IN  IF j > Len(s) \/ s[j] \notin Ord("0")..Ord("9") THEN ParseFail
      ELSE IF s[j] = Ord("0") THEN ParseOk(JNum(0), j + 1)
      ELSE LET d == ScanDigits(s, j, 0)
           IN  ParseOk(JNum(IF neg THEN 0 - d.v ELSE d.v), d.i)

RECURSIVE ParseValue(_, _)
RECURSIVE ParseElements(_, _, _)
RECURSIVE ParseMembers(_, _, _)

\* The elements of an array from position i, up to the closing bracket.
ParseElements(s, i, acc) ==
  LET r == ParseValue(s, i)
      j == SkipWs(s, r.i)
  IN  IF ~r.ok \/ j > Len(s) THEN ParseFail
      ELSE IF s[j] = Ord(",") THEN ParseElements(s, j + 1, Append(acc, r.v))
      ELSE IF s[j] = Ord("]") THEN ParseOk(JArr(Append(acc, r.v)), j + 1)
      ELSE ParseFail

\* The members of an object from position i, up to the closing brace; a
\* repeated name keeps its place and takes the later value.
ParseMembers(s, i, acc) ==
  LET k0 == SkipWs(s, i)
      key == IF k0 <= Len(s) /\ s[k0] = Ord("\"")
             THEN ScanString(s, k0 + 1, << >>) ELSE ParseFail
      c == SkipWs(s, key.i)
      val == IF key.ok /\ c <= Len(s) /\ s[c] = Ord(":")
             THEN ParseValue(s, c + 1) ELSE ParseFail
      j == SkipWs(s, val.i)
  IN  IF ~val.ok \/ j > Len(s) THEN ParseFail
      ELSE IF s[j] = Ord(",")
        THEN ParseMembers(s, j + 1, SetProp(acc, key.v.v, val.v))
      ELSE IF s[j] = Ord("}")
        THEN ParseOk(JObj(SetProp(acc, key.v.v, val.v)), j + 1)
      ELSE ParseFail

\* One JSON value from position i0 on (leading white space skipped).
ParseValue(s, i0) ==
  LET i == SkipWs(s, i0)
  IN  IF i > Len(s) THEN ParseFail
      ELSE IF s[i] = Ord("{")
        THEN LET j == SkipWs(s, i + 1)
             IN  IF j <= Len(s) /\ s[j] = Ord("}")
                 THEN ParseOk(JObj(<< >>), j + 1)
                 ELSE ParseMembers(s, i + 1, << >>)
      ELSE IF s[i] = Ord("[")
        THEN LET j == SkipWs(s, i + 1)
             IN  IF j <= Len(s) /\ s[j] = Ord("]")
                 THEN ParseOk(JArr(<< >>), j + 1)
                 ELSE ParseElements(s, i + 1, << >>)
      ELSE IF s[i] = Ord("\"") THEN ScanString(s, i + 1, << >>)
      ELSE IF s[i] = Ord("-") \/ s[i] \in Ord("0")..Ord("9")
        THEN ParseNumber(s, i)
      ELSE IF StartsWithAt(s, i, Str(<< "t", "r", "u", "e" >>))
        THEN ParseOk(JBool(TRUE), i + 4)
      ELSE IF StartsWithAt(s, i, Str(<< "f", "a", "l", "s", "e" >>))
        THEN ParseOk(JBool(FALSE), i + 5)
      ELSE IF StartsWithAt(s, i, Str(<< "n", "u", "l", "l" >>))
        THEN ParseOk(JNull, i + 4)
      ELSE ParseFail

\* JSON.parse(text): [ok |-> TRUE, v |-> value], or ok = FALSE where
\* JSON.parse throws a SyntaxError.
JsonParse(s) ==
  LET r == ParseValue(s, 1)
  IN  IF r.ok /\ SkipWs(s, r.i) = Len(s) + 1
      THEN [ok |-> TRUE, v |-> r.v]
      ELSE [ok |-> FALSE, v |-> JNull]

(***************************************************************************)
(* The primitives of Node's crypto module that crypto.ts calls.  SHA-256   *)
(* and AES-256-GCM are modelled by keyed polynomial hashes over the prime  *)
(* field of 46337 elements: a digest of 32 bytes, a counter-mode key       *)
(* stream XORed onto the plaintext, and a 16-byte tag over the nonce and   *)
(* the ciphertext that decryption recomputes and compares.                 *)
(***************************************************************************)

IV_LENGTH == 16
GCM_TAG_LENGTH == 16

RECURSIVE PolyFold(_, _, _, _)
\* Over positions lo..hi of data, the pair << sum, power >>: the sum of
\* (data[i] + 1) * mult^(hi - i) and mult^(hi - lo + 1), both modulo 46337.
PolyFold(data, lo, hi, mult) ==
  IF lo > hi THEN << 0, 1 >>
  ELSE IF lo = hi THEN << (data[lo] + 1) % 46337, mult % 46337 >>
  ELSE LET mid == (lo + hi) \div 2
           left == PolyFold(data, lo, mid, mult)
           right == PolyFold(data, mid + 1, hi, mult)
       IN  << (left[1] * right[2] + right[1]) % 46337,
              (left[2] * right[2]) % 46337 >>

\* The polynomial hash of a byte sequence under multiplier mult, from seed.
PolyHash(data, mult, seed) ==
  LET f == PolyFold(data, 1, Len(data), mult)
  IN  ((seed % 46337) * f[2] + f[1]) % 46337

\* A 16-bit hash as two bytes, high byte first.
TwoBytes(h) == << (h \div 256) % 256, h % 256 >>

\* 2 * pairs bytes spread from two hashes; the first four are the hashes.
Expand(h1, h2, pairs) ==
  Flatten([k \in 1..pairs |->
             IF k = 1 THEN TwoBytes(h1)
             ELSE IF k = 2 THEN TwoBytes(h2)
             ELSE TwoBytes(((h1 % 4096) * (2 * k + 1) + (h2 % 4096) * (k + 7)
                              + (h1 \div 4096) + k) % 46337)])

RECURSIVE Xor(_, _)
\* Bitwise exclusive or of two naturals.
Xor(a, b) ==
  IF a = 0 THEN b
  ELSE IF b = 0 THEN a
  ELSE ((a + b) % 2) + 2 * Xor(a \div 2, b \div 2)

\* crypto.createHash('sha256').update(..).digest(): a 32-byte digest.
Sha256(bytes) == Expand(PolyHash(bytes, 31, 1), PolyHash(bytes, 37, 2), 16)

\* The byte the cipher XORs onto plaintext byte n under a (key, iv) pair.
GcmKeystreamByte(streamKey, n) ==
  (((streamKey % 4096) + 1) * (n + 7) + (streamKey \div 4096) + 11 * n) % 256

\* cipher.update(..) + cipher.final(): the ciphertext, as long as the
\* plaintext (counter mode); decipher.update(..) is the same operation.
GcmCrypt(keyBuffer, iv, bytes) ==
  LET subkey == PolyHash(keyBuffer \o iv, 257, 7)
  IN  [j \in 1..Len(bytes) |-> Xor(bytes[j], GcmKeystreamByte(subkey, j))]

\* cipher.getAuthTag(): GCM_TAG_LENGTH bytes over key, nonce and ciphertext.
GcmTag(keyBuffer, iv, cipherBytes) ==
  LET h == PolyHash(keyBuffer, 41, 3)
      msg == iv \o cipherBytes \o << Len(iv) % 256, Len(cipherBytes) % 256 >>
  IN  Expand(PolyHash(msg, 43, h), PolyHash(msg, 47, h + 1),
             GCM_TAG_LENGTH \div 2)

(***************************************************************************)
(* crypto.ts                                                               *)
(***************************************************************************)

\* A keyToBuffer that hashes only the first two characters of the key.
keyToBufferPrefix(key) == Sha256(Utf8Encode(SubSeq(key, 1, Min({2, Len(key)}))))

\* createHash('sha256').update(key).digest().
keyToBuffer(key) == Sha256(Utf8Encode(key))

\* An encrypt that writes the tag in front of the nonce.
encryptBuffersTagFirst(keyBuffer, iv, cipherBytes) ==
  HexEncode(GcmTag(keyBuffer, iv, cipherBytes)) \o HexEncode(iv)
    \o HexEncode(cipherBytes)

\* encrypt from cipher.update and cipher.final on: the hex of the nonce, of
\* the ciphertext and of the tag.
encryptBuffers(keyBuffer, iv, cipherBytes) ==
  HexEncode(iv) \o HexEncode(cipherBytes)
    \o HexEncode(GcmTag(keyBuffer, iv, cipherBytes))

\* cipher.update(plainText, 'utf8', 'hex') + cipher.final('hex'), and the
\* tag over it.
encryptPlain(keyBuffer, iv, plainText) ==
  encryptBuffers(keyBuffer, iv, GcmCrypt(keyBuffer, iv, Utf8Encode(plainText)))

\* An encrypt that uses a nonce of zeros instead of the one it drew.
encryptZeroIv(key, data, iv) ==
  encryptPlain(keyToBuffer(key), [i \in 1..IV_LENGTH |-> 0], JsonStringify(data))

\* encrypt(key, data); iv is the value crypto.randomBytes(IV_LENGTH) drew.
encrypt(key, data, iv) ==
  encryptPlain(keyToBuffer(key), iv, JsonStringify(data))

\* The minimum length decrypt accepts.
minLength == (IV_LENGTH + GCM_TAG_LENGTH) * 2 + 2

\* What a block of statements did: it ran to a return of v, or one of its
\* statements threw.
Completed(v) == [threw |-> FALSE, v |-> v]
Thrown == [threw |-> TRUE, v |-> JNull]

\* return JSON.parse(decrypted): JSON.parse throws on a syntax error.
decryptParse(parsed) == IF parsed.ok THEN Completed(parsed.v) ELSE Thrown

\* A decrypt whose try block never compares the tag.
decryptBuffersNoTag(keyBuffer, iv, tag, encrypted) ==
  IF Len(iv) # IV_LENGTH \/ Len(tag) # GCM_TAG_LENGTH \/ Len(encrypted) = 0
  THEN Completed(JFalse)
  ELSE decryptParse(JsonParse(Utf8Decode(GcmCrypt(keyBuffer, iv, encrypted))))

\* decrypt's try block from the checks of the three buffers on;
\* decipher.final() throws on a tag mismatch.
decryptBuffers(keyBuffer, iv, tag, encrypted) ==
  IF Len(iv) # IV_LENGTH \/ Len(tag) # GCM_TAG_LENGTH \/ Len(encrypted) = 0
  THEN Completed(JFalse)
  ELSE IF GcmTag(keyBuffer, iv, encrypted) # tag
  THEN Thrown
  ELSE decryptParse(JsonParse(Utf8Decode(GcmCrypt(keyBuffer, iv, encrypted))))

\* The three substrings decrypt takes from the text, before Buffer.from
\* decodes them.
decryptSplit(encryptedText) ==
  [iv |-> Substring(encryptedText, 0, IV_LENGTH * 2),
   tag |-> Substring(encryptedText, Len(encryptedText) - GCM_TAG_LENGTH * 2,
                     Len(encryptedText)),
   encrypted |-> Substring(encryptedText, IV_LENGTH * 2,
                           Len(encryptedText) - GCM_TAG_LENGTH * 2)]

\* decrypt's try block: the length check, then the three parts of the text
\* decoded from hex.
decryptTry(key, encryptedText) ==
  IF Len(encryptedText) < minLength
  THEN Completed(JFalse)
  ELSE decryptBuffers(
         keyToBuffer(key),
         HexDecode(decryptSplit(encryptedText).iv),
         HexDecode(decryptSplit(encryptedText).tag),
         HexDecode(decryptSplit(encryptedText).encrypted))

\* catch { return false }: every throw of the try block becomes false.
decryptCatch(r) == IF r.threw THEN JFalse ELSE r.v

\* decrypt(key, encryptedText).
decrypt(key, encryptedText) == decryptCatch(decryptTry(key, encryptedText))

(***************************************************************************)
(* error.ts                                                                *)
(***************************************************************************)

\* A string of an error: a template and the argument interpolated into it.
Text(template) == [text |-> template, arg |-> ""]
TextWith(template, arg) == [text |-> template, arg |-> arg]

\* new AuthingyError(code, message, details): the constructor stores its
\* first argument as code, hands the second to Error and keeps the third.
AuthingyError(code, message, details) ==
  [name |-> "AuthingyError", code |-> code, message |-> message,
   details |-> details]

\* An argument that a call leaves out: Error(undefined) has the message "",
\* and details stays undefined.
NoMessage == Text("")
NoDetails == << >>

\* A TypeError thrown by the runtime; it has no code.
TypeError(message) ==
  [name |-> "TypeError", code |-> Text(""), message |-> message,
   details |-> NoDetails]

\* The codes that AuthingyErrorCode declares.
AuthingyErrorCode ==
  { Text("PROVIDER_NOT_FOUND"), Text("INVALID_STATE"),
    Text("TOKEN_EXCHANGE_FAILED"), Text("USER_FETCH_FAILED"),
    Text("MISSING_CODE_VERIFIER"), Text("MISSING_AUTHORIZATION_ENDPOINT") }

\* What a call did: it returned a value or threw an error.
Returned(value) == [threw |-> FALSE, value |-> value, error |-> TypeError(Text(""))]
Threw(error) == [threw |-> TRUE, value |-> JNull, error |-> error]

(***************************************************************************)
(* URLs.  A URL is its endpoint and its query, a sequence of               *)
(* << name, value >> pairs of strings, as url.searchParams holds them.     *)
(***************************************************************************)

\* url.searchParams.get(name): the first value of that name, else null.
SearchParamsGet(query, name) ==
  IF \E i \in 1..Len(query) : query[i][1] = name
  THEN JStr(query[Min({i \in 1..Len(query) : query[i][1] = name})][2])
  ELSE JNull

\* url.searchParams.append(name, value) in the place of set: a pair is
\* appended whether or not the name is there.
SearchParamsAppend(query, name, value) == Append(query, << name, value >>)

\* url.searchParams.set(name, value): the first pair of that name takes the
\* value and the others of that name are removed, else a pair is appended.
SearchParamsSet(query, name, value) ==
  IF \E i \in 1..Len(query) : query[i][1] = name
  THEN LET first == Min({i \in 1..Len(query) : query[i][1] = name})
           keep == {i \in 1..Len(query) : i = first \/ query[i][1] # name}
           nth(k) == CHOOSE i \in keep : Cardinality({j \in keep : j < i}) = k - 1
       IN  [k \in 1..Cardinality(keep) |->
              IF nth(k) = first THEN << name, value >> ELSE query[nth(k)]]
  ELSE Append(query, << name, value >>)

\* The 64 characters of base64url.
Base64UrlChars ==
  Str(<< "A", "B", "C", "D", "E", "F", "G", "H", "I", "J", "K", "L", "M",
         "N", "O", "P", "Q", "R", "S", "T", "U", "V", "W", "X", "Y", "Z",
         "a", "b", "c", "d", "e", "f", "g", "h", "i", "j", "k", "l", "m",
         "n", "o", "p", "q", "r", "s", "t", "u", "v", "w", "x", "y", "z",
         "0", "1", "2", "3", "4", "5", "6", "7", "8", "9", "-", "_" >>)

\* base64url without padding: six bits per character, high bits first.
Base64UrlEncode(bytes) ==
  LET nbits == 8 * Len(bytes)
      nchars == (nbits + 5) \div 6
      byteAt(k) == IF k <= Len(bytes) THEN bytes[k] ELSE 0
      \* the 16 bits starting at the byte that holds bit offset o
      sextet(o) == LET w == 256 * byteAt((o \div 8) + 1) + byteAt((o \div 8) + 2)
                       shift == 10 - (o % 8)
                   IN  (w \div (2 ^ shift)) % 64
  IN  [c \in 1..nchars |-> Base64UrlChars[sextet(6 * (c - 1)) + 1]]

\* The "plain" challenge in the place of S256: the verifier itself.
calculatePKCECodeChallengePlain(codeVerifier) == codeVerifier

\* oauth.calculatePKCECodeChallenge(codeVerifier): BASE64URL(SHA256(ASCII(v))).
calculatePKCECodeChallenge(codeVerifier) ==
  Base64UrlEncode(Sha256(Utf8Encode(codeVerifier)))

\* Array.prototype.join(' ') over the scopes.
JoinScopes(scopes) == JoinWith(scopes, << Ord(" ") >>)

RECURSIVE SetAll(_, _)
\* searchParams.set for each entry of extraParams, in order.
SetAll(query, entries) ==
  IF Len(entries) = 0 THEN query
  ELSE SetAll(SearchParamsSet(query, entries[1][1], entries[1][2]), Tail(entries))

\* buildAuthorizationUrl(options) of utils.ts.
buildAuthorizationUrl(authorizationEndpoint, clientId, redirectUri, scopes, codeVerifier, state, extraParams) ==
  LET codeChallenge == calculatePKCECodeChallenge(codeVerifier)
      q1 == SearchParamsSet(<< >>, Str(<< "c", "l", "i", "e", "n", "t", "_", "i", "d" >>), clientId)
      q2 == SearchParamsSet(q1, Str(<< "r", "e", "d", "i", "r", "e", "c", "t", "_", "u", "r", "i" >>), redirectUri)
      q3 == SearchParamsSet(q2, Str(<< "r", "e", "s", "p", "o", "n", "s", "e", "_", "t", "y", "p", "e" >>),
                            Str(<< "c", "o", "d", "e" >>))
      q4 == SearchParamsSet(q3, Str(<< "s", "c", "o", "p", "e" >>), JoinScopes(scopes))
      q5 == SearchParamsSet(q4, Str(<< "c", "o", "d", "e", "_", "c", "h", "a", "l", "l", "e", "n", "g", "e" >>),
                            codeChallenge)
      q6 == SearchParamsSet(q5, Str(<< "c", "o", "d", "e", "_", "c", "h", "a", "l", "l", "e", "n", "g", "e",
                                       "_", "m", "e", "t", "h", "o", "d" >>),
                            Str(<< "S", "2", "5", "6" >>))
      q7 == SearchParamsSet(q6, Str(<< "s", "t", "a", "t", "e" >>), state)
  IN  [endpoint |-> authorizationEndpoint, query |-> SetAll(q7, extraParams)]

\* No URL: the call that would have built it threw or was not made.
NoUrl == [endpoint |-> "", query |-> << >>]

(***************************************************************************)
(* JavaScript operators that authingy.ts and the providers apply.          *)
(***************************************************************************)

\* !value: false, null, 0 and "" are falsy; objects and arrays are not.
Falsy(x) ==
  \/ x.t = "null"
  \/ x.t = "bool" /\ ~x.v
  \/ x.t = "num" /\ x.v = 0
  \/ x.t = "str" /\ Len(x.v) = 0

\* Whether `name in value` throws a TypeError: it does on a primitive.
InThrows(x) == x.t \in {"null", "bool", "num", "str"}

\* `name in value` for an object or an array of JSON.parse: an own property
\* of an object; an array has only its indices and length.
In(name, x) == x.t = "obj" /\ name \in Keys(x)

\* typeof value.
TypeOf(x) ==
  CASE x.t = "str" -> "string"
    [] x.t = "num" -> "number"
    [] x.t = "bool" -> "boolean"
    [] OTHER -> "object"

\* { ...rest, [name]: value }: the named property is written last and wins.
SpreadUnder(name, value, rest) == JObj(SetProp(rest.v, name, value))

\* { [name]: value, ...rest }: the properties of rest follow the first one,
\* and one of the same name replaces its value.
SpreadOver(name, value, rest) ==
  LET RECURSIVE put(_, _)
      put(props, k) == IF k > Len(rest.v) THEN props
                       ELSE put(SetProp(props, rest.v[k][1], rest.v[k][2]), k + 1)
  IN  JObj(put(<< << name, value >> >>, 1))

\* const { [name]: _, ...data } = value: the other own properties.
RestWithout(name, x) ==
  LET keep == {i \in 1..Len(x.v) : x.v[i][1] # name}
      nth(k) == CHOOSE i \in keep : Cardinality({j \in keep : j < i}) = k - 1
  IN  JObj([k \in 1..Cardinality(keep) |-> x.v[nth(k)]])

kState == Str(<< "s", "t", "a", "t", "e" >>)
kCode == Str(<< "c", "o", "d", "e" >>)

(***************************************************************************)
(* HTTP as the providers use it: a request and the response the endpoint   *)
(* gave.                                                                   *)
(***************************************************************************)

\* A fetch(url, init) call.
Request(method, url, headers, body) ==
  [method |-> method, url |-> url, headers |-> headers, body |-> body]
NoRequest == Request("", "", << >>, << >>)

\* One entry of the log of what an invocation called.
Call(op, who, req) == [op |-> op, who |-> who, req |-> req]

\* A response: the endpoint that gave it and its status.
Answer(from, status) == [from |-> from, status |-> status, body |-> [t |-> "null", v |-> << >>]]

\* response.ok: the status is in the range 200-299.
ResponseOk(status) == status \in 200..299

\* The 64 characters of base64.
Base64Chars ==
  SubSeq(Base64UrlChars, 1, 62) \o << Ord("+"), Ord("/") >>

\* Buffer.toString('base64'): base64 with padding.
Base64Encode(bytes) ==
  LET body == Base64UrlEncode(bytes)
      pad == (3 - (Len(bytes) % 3)) % 3
  IN  [c \in 1..(Len(body) + pad) |->
         IF c > Len(body) THEN Ord("=")
         ELSE Base64Chars[CHOOSE k \in 1..64 : Base64UrlChars[k] = body[c]]]

kAccessToken == Str(<< "a", "c", "c", "e", "s", "s", "_", "t", "o", "k", "e", "n" >>)
kData == Str(<< "d", "a", "t", "a" >>)

\* The token endpoint's JSON on success, the profile JSON, and the JSON in
\* which the X API wraps the profile.
TokenBody == JObj(<< << kAccessToken, JStr(Str(<< "t", "0" >>)) >> >>)
UserBody == JObj(<< << Str(<< "i", "d" >>), JStr(Str(<< "u", "1" >>)) >> >>)
XUserResponse == JObj(<< << kData, UserBody >> >>)
\* The body of an error response.
ErrorBody == Str(<< "d", "e", "n", "i", "e", "d" >>)

\* config.scopes, which is optional: a list, or nothing.
Provided(list) == [given |-> TRUE, list |-> list]
NotProvided == [given |-> FALSE, list |-> << >>]

\* A provider that puts the scopes of the configuration before its own.
scopesOfProvidedFirst(defaultScopes, providedScopes) ==
  (IF providedScopes.given THEN providedScopes.list ELSE << >>) \o defaultScopes

\* const scopes = [...defaultScopes, ...(providedScopes ?? [])], the same
\* line in every provider.
scopesOf(defaultScopes, providedScopes) ==
  defaultScopes \o (IF providedScopes.given THEN providedScopes.list ELSE << >>)

(***************************************************************************)
(* providers/x.ts                                                          *)
(***************************************************************************)

\* The configuration passed to x(config).
xConfig ==
  [clientId |-> Str(<< "x", "i", "d" >>),
   clientSecret |-> Str(<< "x", "s" >>),
   redirectUri |-> Str(<< "/", "x" >>),
   scopes |-> NotProvided]

xDefaultScopes ==
  << Str(<< "u", "s", "e", "r", "s", ".", "r", "e", "a", "d" >>),
     Str(<< "t", "w", "e", "e", "t", ".", "r", "e", "a", "d" >>),
     Str(<< "o", "f", "f", "l", "i", "n", "e", ".", "a", "c", "c", "e", "s", "s" >>) >>

\* x(config)._authorization({ state, codeVerifier }).
x_authorizationOf(config, state, codeVerifier) ==
  IF Len(codeVerifier) = 0
  THEN Threw(AuthingyError(Text("MISSING_CODE_VERIFIER"),
                           Text("Code verifier is required"), NoDetails))
  ELSE Returned(buildAuthorizationUrl("https://x.com/i/oauth2/authorize",
                  config.clientId, config.redirectUri,
                  scopesOf(xDefaultScopes, config.scopes), codeVerifier, state,
                  << >>))

\* _authorization of the provider that x(xConfig) made.
x_authorization(state, codeVerifier) ==
  x_authorizationOf(xConfig, state, codeVerifier)

\* A token request of X that authenticates as Discord does.
x_tokenRequestSecretInBody(code, codeVerifier) ==
  Request("POST", "https://api.x.com/2/oauth2/token",
          << << Str(<< "C", "o", "n", "t", "e", "n", "t", "-", "T", "y", "p", "e" >>),
                Str(<< "a", "p", "p", "l", "i", "c", "a", "t", "i", "o", "n", "/", "x", "-", "w", "w", "w", "-", "f", "o", "r", "m", "-", "u", "r", "l", "e", "n", "c", "o", "d", "e", "d" >>) >> >>,
          << << Str(<< "g", "r", "a", "n", "t", "_", "t", "y", "p", "e" >>),
                Str(<< "a", "u", "t", "h", "o", "r", "i", "z", "a", "t", "i", "o", "n", "_", "c", "o", "d", "e" >>) >>,
             << kCode, code >>,
             << Str(<< "r", "e", "d", "i", "r", "e", "c", "t", "_", "u", "r", "i" >>), xConfig.redirectUri >>,
             << Str(<< "c", "l", "i", "e", "n", "t", "_", "i", "d" >>), xConfig.clientId >>,
             << Str(<< "c", "l", "i", "e", "n", "t", "_", "s", "e", "c", "r", "e", "t" >>), xConfig.clientSecret >>,
             << Str(<< "c", "o", "d", "e", "_", "v", "e", "r", "i", "f", "i", "e", "r" >>), codeVerifier >> >>)

\* The token request of x._callback: the client credentials as HTTP Basic.
x_tokenRequest(code, codeVerifier) ==
  Request("POST", "https://api.x.com/2/oauth2/token",
          << << Str(<< "C", "o", "n", "t", "e", "n", "t", "-", "T", "y", "p", "e" >>),
                Str(<< "a", "p", "p", "l", "i", "c", "a", "t", "i", "o", "n", "/", "x", "-", "w", "w", "w", "-", "f", "o", "r", "m", "-", "u", "r", "l", "e", "n", "c", "o", "d", "e", "d" >>) >>,
             << Str(<< "A", "u", "t", "h", "o", "r", "i", "z", "a", "t", "i", "o", "n" >>),
                Str(<< "B", "a", "s", "i", "c", " " >>)
                  \o Base64Encode(Utf8Encode(xConfig.clientId \o << Ord(":") >>
                                              \o xConfig.clientSecret)) >> >>,
          << << Str(<< "g", "r", "a", "n", "t", "_", "t", "y", "p", "e" >>),
                Str(<< "a", "u", "t", "h", "o", "r", "i", "z", "a", "t", "i", "o", "n", "_", "c", "o", "d", "e" >>) >>,
             << kCode, code >>,
             << Str(<< "r", "e", "d", "i", "r", "e", "c", "t", "_", "u", "r", "i" >>), xConfig.redirectUri >>,
             << Str(<< "c", "o", "d", "e", "_", "v", "e", "r", "i", "f", "i", "e", "r" >>), codeVerifier >> >>)

\* An x._callback that does not compare the returned state.
x_callbackNoStateCheck(url, codeVerifier, state) ==
  IF Falsy(SearchParamsGet(url.query, kCode))
  THEN Threw(AuthingyError(Text("TOKEN_EXCHANGE_FAILED"),
               Text("Missing authorization code in callback"), NoDetails))
  ELSE Returned(x_tokenRequest(SearchParamsGet(url.query, kCode).v, codeVerifier))

\* An x._callback that compares the returned state before it looks for the
\* code.
x_callbackStateFirst(url, codeVerifier, state) ==
  IF SearchParamsGet(url.query, kState) # state
  THEN Threw(AuthingyError(Text("INVALID_STATE"),
               Text("State mismatch in callback"), NoDetails))
  ELSE IF Falsy(SearchParamsGet(url.query, kCode))
  THEN Threw(AuthingyError(Text("TOKEN_EXCHANGE_FAILED"),
               Text("Missing authorization code in callback"), NoDetails))
  ELSE Returned(x_tokenRequest(SearchParamsGet(url.query, kCode).v, codeVerifier))

\* x._callback({ url, codeVerifier, state }) up to its fetch: the error it
\* throws, or the token request it sends.
x_callback(url, codeVerifier, state) ==
  LET code == SearchParamsGet(url.query, kCode)
      returnedState == SearchParamsGet(url.query, kState)
  IN  IF Falsy(code)
      THEN Threw(AuthingyError(Text("TOKEN_EXCHANGE_FAILED"),
                   Text("Missing authorization code in callback"), NoDetails))
      ELSE IF returnedState # state
      THEN Threw(AuthingyError(Text("INVALID_STATE"),
                   Text("State mismatch in callback"), NoDetails))
      ELSE Returned(x_tokenRequest(code.v, codeVerifier))

\* x._callback from the token endpoint's response on.
x_callbackResponse(status) ==
  IF ~ResponseOk(status)
  THEN Threw(AuthingyError(Text("TOKEN_EXCHANGE_FAILED"),
               Text("Failed to exchange authorization code for tokens"),
               << status, ErrorBody >>))
  ELSE Returned(TokenBody)

\* x._user({ token }) up to its fetch: the profile request.
x_user(token) ==
  Request("GET", "https://api.x.com/2/users/me",
          << << Str(<< "A", "u", "t", "h", "o", "r", "i", "z", "a", "t", "i", "o", "n" >>),
                Str(<< "B", "e", "a", "r", "e", "r", " " >>) \o Get(token, kAccessToken).v >> >>,
          << >>)

\* x._user from the profile endpoint's response on.
x_userResponse(status) ==
  IF ~ResponseOk(status)
  THEN Threw(AuthingyError(Text("USER_FETCH_FAILED"),
               Text("Failed to fetch X user profile"), << status >>))
  ELSE Returned(Get(XUserResponse, kData))

(***************************************************************************)
(* providers/discord.ts                                                    *)
(***************************************************************************)

\* The configuration passed to discord(config).
discordConfig ==
  [clientId |-> Str(<< "d", "i", "d" >>),
   clientSecret |-> Str(<< "d", "s" >>),
   redirectUri |-> Str(<< "/", "d" >>),
   scopes |-> NotProvided]

discordDefaultScopes ==
  << Str(<< "i", "d", "e", "n", "t", "i", "f", "y" >>),
     Str(<< "e", "m", "a", "i", "l" >>) >>

\* discord(config)._authorization({ state, codeVerifier }).
discord_authorizationOf(config, state, codeVerifier) ==
  IF Len(codeVerifier) = 0
  THEN Threw(AuthingyError(Text("MISSING_CODE_VERIFIER"),
                           Text("Code verifier is required"), NoDetails))
  ELSE Returned(buildAuthorizationUrl("https://discord.com/oauth2/authorize",
                  config.clientId, config.redirectUri,
                  scopesOf(discordDefaultScopes, config.scopes), codeVerifier,
                  state, << >>))

\* _authorization of the provider that discord(discordConfig) made.
discord_authorization(state, codeVerifier) ==
  discord_authorizationOf(discordConfig, state, codeVerifier)

\* The token request of discord._callback: the client credentials in the
\* body.
discord_tokenRequest(code, codeVerifier) ==
  Request("POST", "https://discord.com/api/oauth2/token",
          << << Str(<< "C", "o", "n", "t", "e", "n", "t", "-", "T", "y", "p", "e" >>),
                Str(<< "a", "p", "p", "l", "i", "c", "a", "t", "i", "o", "n", "/", "x", "-", "w", "w", "w", "-", "f", "o", "r", "m", "-", "u", "r", "l", "e", "n", "c", "o", "d", "e", "d" >>) >> >>,
          << << Str(<< "g", "r", "a", "n", "t", "_", "t", "y", "p", "e" >>),
                Str(<< "a", "u", "t", "h", "o", "r", "i", "z", "a", "t", "i", "o", "n", "_", "c", "o", "d", "e" >>) >>,
             << kCode, code >>,
             << Str(<< "r", "e", "d", "i", "r", "e", "c", "t", "_", "u", "r", "i" >>), discordConfig.redirectUri >>,
             << Str(<< "c", "l", "i", "e", "n", "t", "_", "i", "d" >>), discordConfig.clientId >>,
             << Str(<< "c", "l", "i", "e", "n", "t", "_", "s", "e", "c", "r", "e", "t" >>), discordConfig.clientSecret >>,
             << Str(<< "c", "o", "d", "e", "_", "v", "e", "r", "i", "f", "i", "e", "r" >>), codeVerifier >> >>)

\* A discord._callback that sends the token request without comparing the
\* returned state.
discord_callbackCodeFirst(url, codeVerifier, state) ==
  IF Falsy(SearchParamsGet(url.query, kCode))
  THEN Threw(AuthingyError(Text("TOKEN_EXCHANGE_FAILED"),
               Text("Missing authorization code in callback"), NoDetails))
  ELSE Returned(discord_tokenRequest(SearchParamsGet(url.query, kCode).v, codeVerifier))

\* discord._callback({ url, codeVerifier, state }) up to its fetch: the error it
\* throws, or the token request it sends.
discord_callback(url, codeVerifier, state) ==
  LET code == SearchParamsGet(url.query, kCode)
      returnedState == SearchParamsGet(url.query, kState)
  IN  IF Falsy(code)
      THEN Threw(AuthingyError(Text("TOKEN_EXCHANGE_FAILED"),
                   Text("Missing authorization code in callback"), NoDetails))
      ELSE IF returnedState # state
      THEN Threw(AuthingyError(Text("INVALID_STATE"),
                   Text("State mismatch in callback"), NoDetails))
      ELSE Returned(discord_tokenRequest(code.v, codeVerifier))

\* discord._callback from the token endpoint's response on.
discord_callbackResponse(status) ==
  IF ~ResponseOk(status)
  THEN Threw(AuthingyError(Text("TOKEN_EXCHANGE_FAILED"),
               Text("Failed to exchange authorization code for tokens"),
               << status, ErrorBody >>))
  ELSE Returned(TokenBody)

\* discord._user({ token }) up to its fetch: the profile request.
discord_user(token) ==
  Request("GET", "https://discord.com/api/users/@me",
          << << Str(<< "A", "u", "t", "h", "o", "r", "i", "z", "a", "t", "i", "o", "n" >>),
                Str(<< "B", "e", "a", "r", "e", "r", " " >>) \o Get(token, kAccessToken).v >> >>,
          << >>)

\* discord._user from the profile endpoint's response on.
discord_userResponse(status) ==
  IF ~ResponseOk(status)
  THEN Threw(AuthingyError(Text("USER_FETCH_FAILED"),
               Text("Failed to fetch Discord user profile"), << status >>))
  ELSE Returned(UserBody)

(***************************************************************************)
(* oauth4webapi as the providers call it.  The library is no part of the   *)
(* repository; what is modelled is which of its calls throw, and that what *)
(* they throw is the library's own error, which no provider catches.       *)
(***************************************************************************)

\* An error of one of the library's classes.
OAuthError(name, message) ==
  [name |-> name, code |-> Text(""), message |-> Text(message),
   details |-> NoDetails]

kError == Str(<< "e", "r", "r", "o", "r" >>)

\* oauth.validateAuthResponse(as, client, url, state) for a string state:
\* the state parameter must be that state, and there must be no error
\* parameter.
validateAuthResponse(url, state) ==
  IF SearchParamsGet(url.query, kState) # state
  THEN Threw(OAuthError("OperationProcessingError",
                        "unexpected \"state\" response parameter value"))
  ELSE IF SearchParamsGet(url.query, kError) # JNull
  THEN Threw(OAuthError("AuthorizationResponseError",
                        "authorization response from the server is an error"))
  ELSE Returned(JNull)

\* oauth.authorizationCodeGrantRequest(as, client, clientAuth, params,
\* redirectUri, codeVerifier) with ClientSecretPost, up to its fetch: there
\* must be a code, and the request carries the grant and the credentials.
authorizationCodeGrantRequest(tokenEndpoint, clientId, clientSecret, url, redirectUri, codeVerifier) ==
  IF Falsy(SearchParamsGet(url.query, kCode))
  THEN Threw(OAuthError("OperationProcessingError",
                        "no authorization code in \"callbackParameters\""))
  ELSE Returned(Request("POST", tokenEndpoint, << >>,
         << << Str(<< "g", "r", "a", "n", "t", "_", "t", "y", "p", "e" >>), Str(<< "a", "u", "t", "h", "o", "r", "i", "z", "a", "t", "i", "o", "n", "_", "c", "o", "d", "e" >>) >>,
            << kCode, SearchParamsGet(url.query, kCode).v >>,
            << Str(<< "r", "e", "d", "i", "r", "e", "c", "t", "_", "u", "r", "i" >>), redirectUri >>,
            << Str(<< "c", "o", "d", "e", "_", "v", "e", "r", "i", "f", "i", "e", "r" >>), codeVerifier >>,
            << Str(<< "c", "l", "i", "e", "n", "t", "_", "i", "d" >>), clientId >>,
            << Str(<< "c", "l", "i", "e", "n", "t", "_", "s", "e", "c", "r", "e", "t" >>), clientSecret >> >>))

\* oauth.processAuthorizationCodeResponse(as, client, response): any status
\* but 200 makes it throw.
processAuthorizationCodeResponse(status) ==
  IF status # 200
  THEN Threw(OAuthError("OperationProcessingError",
                        "\"response\" is not a conform Token Endpoint response"))
  ELSE Returned(TokenBody)

(***************************************************************************)
(* github(config), the provider that lists its endpoints itself.           *)
(***************************************************************************)

\* The configuration passed to github(config).
githubConfig ==
  [clientId |-> Str(<< "g", "i", "d" >>),
   clientSecret |-> Str(<< "g", "s" >>),
   redirectUri |-> Str(<< "/", "g" >>),
   scopes |-> NotProvided]

githubDefaultScopes == << Str(<< "r", "e", "a", "d", ":", "u", "s", "e", "r" >>), Str(<< "u", "s", "e", "r", ":", "e", "m", "a", "i", "l" >>) >>

\* github(config)._authorization({ state, codeVerifier }); its
\* AuthingyError is made with one argument, which the constructor takes as
\* the code.
github_authorizationOf(config, state, codeVerifier) ==
  IF Len(codeVerifier) = 0
  THEN Threw(AuthingyError(Text("codeVerifier is required"), NoMessage,
                           NoDetails))
  ELSE Returned(buildAuthorizationUrl("https://github.com/login/oauth/authorize",
                  config.clientId, config.redirectUri,
                  scopesOf(githubDefaultScopes, config.scopes), codeVerifier,
                  state, << >>))

\* _authorization of the provider that github(githubConfig) made.
github_authorization(state, codeVerifier) ==
  github_authorizationOf(githubConfig, state, codeVerifier)

\* What validateAuthResponse decided, then the grant request.
github_callbackValidated(params, url, codeVerifier) ==
  IF params.threw THEN params
  ELSE authorizationCodeGrantRequest(
         "https://github.com/login/oauth/access_token", githubConfig.clientId,
         githubConfig.clientSecret, url, githubConfig.redirectUri, codeVerifier)

\* github._callback({ url, codeVerifier, state }) up to its fetch.
github_callback(url, codeVerifier, state) ==
  github_callbackValidated(validateAuthResponse(url, state), url, codeVerifier)

\* github._callback from the token endpoint's response on.
github_callbackResponse(status) == processAuthorizationCodeResponse(status)

\* The headers of the requests of github._user.
githubHeaders(token) ==
  << << Str(<< "A", "u", "t", "h", "o", "r", "i", "z", "a", "t", "i", "o", "n" >>),
        Str(<< "B", "e", "a", "r", "e", "r", " " >>) \o Get(token, kAccessToken).v >>,
     << Str(<< "A", "c", "c", "e", "p", "t" >>), Str(<< "a", "p", "p", "l", "i", "c", "a", "t", "i", "o", "n", "/", "v", "n", "d", ".", "g", "i", "t", "h", "u", "b", "+", "j", "s", "o", "n" >>) >> >>

\* github._user({ token }) up to its first fetch: the profile request.
github_user(token) ==
  Request("GET", "https://api.github.com/user", githubHeaders(token), << >>)

\* github._user from the profile endpoint's response on, up to its second
\* fetch.  Its AuthingyError is made with two arguments, the message and
\* the details: the constructor takes the message as the code and hands the
\* details object to Error, which makes a string of it.
github_userResponse(status) ==
  IF ~ResponseOk(status)
  THEN Threw(AuthingyError(Text("Failed to fetch GitHub user profile"),
                           Text("[object Object]"), NoDetails))
  ELSE Returned(UserBody)

\* The addresses the emails endpoint lists.
EmailsBody ==
  JArr(<< JObj(<< << Str(<< "e", "m", "a", "i", "l" >>), JStr(Str(<< "a" >>)) >>,
                  << Str(<< "p", "r", "i", "m", "a", "r", "y" >>), JBool(TRUE) >>,
                  << Str(<< "v", "e", "r", "i", "f", "i", "e", "d" >>), JBool(TRUE) >> >>) >>)

\* The second request of github._user, sent when the scopes include
\* user:email, which the default scopes do.
github_emails(token) ==
  Request("GET", "https://api.github.com/user/emails", githubHeaders(token),
          << >>)

kEmail == Str(<< "e", "m", "a", "i", "l" >>)
kEmails == Str(<< "e", "m", "a", "i", "l", "s" >>)
kPrimary == Str(<< "p", "r", "i", "m", "a", "r", "y" >>)
kVerified == Str(<< "v", "e", "r", "i", "f", "i", "e", "d" >>)
kVerifiedEmail == Str(<< "v", "e", "r", "i", "f", "i", "e", "d", "_", "e", "m", "a", "i", "l" >>)

\* How the fetch of the emails endpoint ended: it threw, or there is a
\* response with a status and, when that is ok, the list of its JSON.
EmailsAnswer(threw, status, body) == [threw |-> threw, status |-> status, body |-> body]

\* The positions of the entries for which email.primary && email.verified
\* holds.
PrimaryVerified(emails) ==
  {i \in 1..Len(emails.v) :
     Get(emails.v[i], kPrimary) = JBool(TRUE) /\ Get(emails.v[i], kVerified) = JBool(TRUE)}

\* A _user that takes the last primary verified address.
github_emailsFoundLast(result, emails) ==
  IF PrimaryVerified(emails) = {}
  THEN JObj(SetProp(result.v, kEmails, emails))
  ELSE JObj(SetProp(SetProp(result.v, kEmails, emails), kVerifiedEmail,
                    Get(emails.v[CHOOSE i \in PrimaryVerified(emails) :
                                   \A j \in PrimaryVerified(emails) : j <= i], kEmail)))

\* github._user once the emails response is ok: result.emails is the list,
\* and result.verified_email the address of what emails.find returns, if it
\* returns an entry.
github_emailsFound(result, emails) ==
  IF PrimaryVerified(emails) = {}
  THEN JObj(SetProp(result.v, kEmails, emails))
  ELSE JObj(SetProp(SetProp(result.v, kEmails, emails), kVerifiedEmail,
                    Get(emails.v[Min(PrimaryVerified(emails))], kEmail)))

\* github._user from the end of the emails fetch on: the catch clause and a
\* response that is not ok leave the profile as it is.
github_emailsAnswer(userProfile, answer) ==
  IF answer.threw THEN userProfile
  ELSE IF ResponseOk(answer.status) THEN github_emailsFound(userProfile, answer.body)
  ELSE userProfile

\* github._user from the emails endpoint's response on, when the endpoint
\* lists the one address of EmailsBody.
github_emailsResponse(userProfile, status) ==
  github_emailsAnswer(userProfile, EmailsAnswer(FALSE, status, EmailsBody))

\* The extra parameters google._authorization passes.
googleExtraParams ==
  << << Str(<< "a", "c", "c", "e", "s", "s", "_", "t", "y", "p", "e" >>),
        Str(<< "o", "f", "f", "l", "i", "n", "e" >>) >>,
     << Str(<< "p", "r", "o", "m", "p", "t" >>),
        Str(<< "c", "o", "n", "s", "e", "n", "t" >>) >>,
     << Str(<< "i", "n", "c", "l", "u", "d", "e", "_", "g", "r", "a", "n", "t", "e", "d", "_", "s", "c", "o", "p", "e", "s" >>),
        Str(<< "t", "r", "u", "e" >>) >> >>

(***************************************************************************)
(* google(config), linkedin(config) and the vercel(config) that discovers  *)
(* its endpoints: the providers that read the issuer's discovery document. *)
(***************************************************************************)

\* An oauth.AuthorizationServer: the endpoints of a discovery document.
AuthorizationServer(issuer, authorization_endpoint, token_endpoint, userinfo_endpoint) ==
  [issuer |-> issuer, authorization_endpoint |-> authorization_endpoint,
   token_endpoint |-> token_endpoint, userinfo_endpoint |-> userinfo_endpoint]

\* `let as` before its first assignment: undefined.
NoServer == AuthorizationServer("", "", "", "")

\* An object that is there but has no endpoint yet.
PendingServer == AuthorizationServer("pending", "", "", "")

\* authorizationServer() that marks the cache before it awaits the
\* document.
authorizationServerMarked(as) ==
  [request |-> as = NoServer,
   as |-> IF as = NoServer THEN PendingServer ELSE as,
   value |-> as]

\* authorizationServer() up to its await: with `as` unset it requests the
\* document and leaves `as` as it is; else it returns `as`.
authorizationServer(as) ==
  [request |-> as = NoServer, as |-> as, value |-> as]

\* getAuthorizationServer(issuer) from the response on: the document that
\* oauth.processDiscoveryResponse accepts, or the library's error.
getAuthorizationServer(outcome) ==
  IF outcome.ok THEN [threw |-> FALSE, error |-> TypeError(Text("")), as |-> outcome.as]
  ELSE [threw |-> TRUE,
        error |-> OAuthError("OperationProcessingError",
                             "\"response\" is not a conform Authorization Server Metadata response"),
        as |-> NoServer]

\* Whether an operation of the provider goes through authorizationServer():
\* all do but google._user, which calls getAuthorizationServer(issuer).
UsesAuthorizationServer(impl, op) == ~(impl = "google" /\ op = "_user")

\* Whether _authorization assigns what authorizationServer() returned to
\* `as` again: google and linkedin do, vercel keeps it in a constant.
AssignsAgain(impl) == impl \in {"google", "linkedin"}

\* The error of _authorization for a document without an authorization
\* endpoint: google makes it with one argument.
MissingEndpointError(impl) ==
  IF impl = "google"
  THEN AuthingyError(Text("Authorization endpoint not found"), NoMessage, NoDetails)
  ELSE AuthingyError(Text("MISSING_AUTHORIZATION_ENDPOINT"),
                     Text("Authorization endpoint not found"), NoDetails)

\* The error of _authorization for an empty code verifier: google makes it
\* with one argument.
MissingVerifierError(impl) ==
  IF impl = "google"
  THEN AuthingyError(Text("codeVerifier is required"), NoMessage, NoDetails)
  ELSE AuthingyError(Text("MISSING_CODE_VERIFIER"),
                     Text("Code verifier is required"), NoDetails)

\* Whether the operation throws before its first await: _authorization
\* does for an empty code verifier.
ThrowsAtOnce(op, codeVerifier) ==
  op = "_authorization" /\ Len(codeVerifier) = 0

\* The configuration passed to the provider.
oidcConfig ==
  [clientId |-> Str(<< "o", "i", "d" >>),
   clientSecret |-> Str(<< "o", "s" >>),
   redirectUri |-> Str(<< "/", "o" >>),
   scopes |-> NotProvided]

\* The default scopes of google and of vercel.
oidcDefaultScopes == << Str(<< "o", "p", "e", "n", "i", "d" >>), Str(<< "e", "m", "a", "i", "l" >>), Str(<< "p", "r", "o", "f", "i", "l", "e" >>) >>

\* What an operation of a provider did: it threw, or it returned having
\* built this URL or having sent its request to this endpoint.
Outcome(threw, error, url, endpoint) ==
  [threw |-> threw, error |-> error, url |-> url, endpoint |-> endpoint]
NoOutcome == Outcome(FALSE, TypeError(Text("")), NoUrl, "")

\* The default scopes of linkedin, and those of a discovering provider.
linkedinDefaultScopes == << Str(<< "o", "p", "e", "n", "i", "d" >>), Str(<< "p", "r", "o", "f", "i", "l", "e" >>), Str(<< "e", "m", "a", "i", "l" >>) >>
oidcDefaultScopesOf(impl) ==
  IF impl = "linkedin" THEN linkedinDefaultScopes ELSE oidcDefaultScopes

\* _authorization({ state, codeVerifier }) of the provider made with config,
\* from the document on.
oidc_authorizationOf(impl, config, as, state, codeVerifier) ==
  IF as.authorization_endpoint = ""
  THEN Outcome(TRUE, MissingEndpointError(impl), NoUrl, "")
  ELSE Outcome(FALSE, TypeError(Text("")),
               buildAuthorizationUrl(as.authorization_endpoint,
                 config.clientId, config.redirectUri,
                 scopesOf(oidcDefaultScopesOf(impl), config.scopes),
                 codeVerifier, state,
                 IF impl = "google" THEN googleExtraParams ELSE << >>),
               as.authorization_endpoint)

\* _authorization of the provider made with oidcConfig.
oidc_authorization(impl, as, state, codeVerifier) ==
  oidc_authorizationOf(impl, oidcConfig, as, state, codeVerifier)

\* oauth.processUserInfoResponse(as, client, sub, response): any status but
\* 200 makes it throw.
processUserInfoResponse(status) ==
  IF status # 200
  THEN Threw(OAuthError("OperationProcessingError",
                        "\"response\" is not a conform UserInfo Endpoint response"))
  ELSE Returned(UserBody)

(***************************************************************************)
(* authingy.ts: defineAuthingyConfig.                                      *)
(***************************************************************************)

\* config.secret, the process secret.
secret == Str(<< "s", "1" >>)

\* config.providers, in the order they are listed: the id of each and the
\* module whose operations it has.  The first one has the id of the second:
\* an object with the operations of discord(config) and the id 'x'.
providers ==
  << [id |-> "x", impl |-> "discord"], [id |-> "x", impl |-> "x"],
     [id |-> "discord", impl |-> "discord"], [id |-> "github", impl |-> "github"] >>

\* The '~providers' property of what defineAuthingyConfig returns:
\* config.providers itself.
tildeProviders == providers

\* A registry that keeps the first provider listed with an id.
providerMapFirstListed ==
  [id \in {providers[i].id : i \in DOMAIN providers} |->
     providers[CHOOSE i \in DOMAIN providers :
                 /\ providers[i].id = id
                 /\ \A j \in DOMAIN providers : providers[j].id = id => i <= j]]

\* providerMap after the loop of providerMap.set(provider.id, provider):
\* each id maps to the last provider listed with it.
providerMap ==
  [id \in {providers[i].id : i \in DOMAIN providers} |->
     providers[CHOOSE i \in DOMAIN providers :
                 /\ providers[i].id = id
                 /\ \A j \in DOMAIN providers : providers[j].id = id => j <= i]]

\* provider._authorization, provider._callback and provider._user of the
\* provider that providerMap.get returned.
provider_authorization(provider, state, codeVerifier) ==
  CASE provider.impl = "x" -> x_authorization(state, codeVerifier)
    [] provider.impl = "discord" -> discord_authorization(state, codeVerifier)
    [] provider.impl = "github" -> github_authorization(state, codeVerifier)

provider_callback(provider, url, codeVerifier, state) ==
  CASE provider.impl = "x" -> x_callback(url, codeVerifier, state)
    [] provider.impl = "discord" -> discord_callback(url, codeVerifier, state)
    [] provider.impl = "github" -> github_callback(url, codeVerifier, state)

provider_callbackResponse(provider, status) ==
  CASE provider.impl = "x" -> x_callbackResponse(status)
    [] provider.impl = "discord" -> discord_callbackResponse(status)
    [] provider.impl = "github" -> github_callbackResponse(status)

provider_user(provider, token) ==
  CASE provider.impl = "x" -> x_user(token)
    [] provider.impl = "discord" -> discord_user(token)
    [] provider.impl = "github" -> github_user(token)

provider_userResponse(provider, status) ==
  CASE provider.impl = "x" -> x_userResponse(status)
    [] provider.impl = "discord" -> discord_userResponse(status)
    [] provider.impl = "github" -> github_userResponse(status)

\* Whether provider._user sends a second request once it has the profile.
provider_userMore(provider) == provider.impl = "github"

\* new AuthingyError(`Provider "${String(id)}" not found`): the one argument
\* is the constructor's first parameter, code.
ProviderNotFoundError(id) ==
  AuthingyError(TextWith("Provider \"${String(id)}\" not found", id),
                NoMessage, NoDetails)

\* new AuthingyError('Invalid state'), likewise.
InvalidStateError == AuthingyError(Text("Invalid state"), NoMessage, NoDetails)

\* The TypeError of `'state' in value` on a primitive value.
InOperatorError ==
  TypeError(Text("Cannot use 'in' operator to search for 'state'"))

\* What an invocation has done so far: where it stands ("done", or the
\* fetch it awaits), its outcome, what it called, and its local variables.
Step(pc, result, calls, decryptedState) ==
  [pc |-> pc, result |-> result, calls |-> calls,
   decryptedState |-> decryptedState]

\* authorize from the sealed state and the provider's URL on: it returns
\* { url, state, codeVerifier }, or throws what the provider threw.
authorizeReturn(provider, url, encryptedWithState, codeVerifier) ==
  Step("done",
       IF url.threw THEN url
       ELSE Returned([url |-> url.value, state |-> encryptedWithState,
                      codeVerifier |-> codeVerifier]),
       << Call("encrypt", "authingy", NoRequest),
          Call("_authorization", provider.impl, NoRequest) >>,
       JNull)

\* authorize(id, data); state, iv and codeVerifier are what
\* oauth.generateRandomState, crypto.randomBytes and
\* oauth.generateRandomCodeVerifier return to it.
authorize(id, data, state, iv, codeVerifier) ==
  IF id \notin DOMAIN providerMap
  THEN Step("done", Threw(ProviderNotFoundError(id)), << >>, JNull)
  ELSE authorizeReturn(
         providerMap[id],
         provider_authorization(providerMap[id], state, codeVerifier),
         encrypt(secret, SpreadOver(kState, JStr(state), data), iv),
         codeVerifier)

\* callback from the value that decrypt returned on, up to its call of
\* provider._callback: the checks of decryptedState.
callbackOpened(decryptedState) ==
  IF Falsy(decryptedState)
  THEN Step("done", Threw(InvalidStateError),
            << Call("decrypt", "authingy", NoRequest) >>, decryptedState)
  ELSE IF InThrows(decryptedState)
  THEN Step("done", Threw(InOperatorError),
            << Call("decrypt", "authingy", NoRequest) >>, decryptedState)
  ELSE IF \/ ~In(kState, decryptedState)
          \/ TypeOf(Get(decryptedState, kState)) # "string"
  THEN Step("done", Threw(InvalidStateError),
            << Call("decrypt", "authingy", NoRequest) >>, decryptedState)
  ELSE Step("provider", Returned(JNull),
            << Call("decrypt", "authingy", NoRequest) >>, decryptedState)

\* callback(id, { url, codeVerifier, state }) up to its call of
\* provider._callback: the lookup, then the unsealing and the checks.
callback(id, encryptedWithState) ==
  IF id \notin DOMAIN providerMap
  THEN Step("done", Threw(ProviderNotFoundError(id)), << >>, JNull)
  ELSE callbackOpened(decrypt(secret, encryptedWithState))

\* callback from its call of provider._callback on, up to the fetch of the
\* token endpoint.
callbackProvider(id, calls, decryptedState, url, codeVerifier) ==
  LET provider == providerMap[id]
      sent == provider_callback(provider, url, codeVerifier,
                                Get(decryptedState, kState))
      called == Append(calls, Call("_callback", provider.impl, NoRequest))
  IN  IF sent.threw THEN Step("done", sent, called, decryptedState)
      ELSE Step("token", Returned(JNull),
                Append(called, Call("fetch", provider.impl, sent.value)),
                decryptedState)

\* A callback whose provider sends the token request again when the token
\* endpoint refused it.
callbackTokenRetrying(id, calls, decryptedState, status) ==
  IF ~ResponseOk(status)
  THEN Step("token", Returned(JNull), Append(calls, calls[Len(calls)]),
            decryptedState)
  ELSE Step("user", provider_callbackResponse(providerMap[id], status),
            calls \o << Call("_user", providerMap[id].impl, NoRequest),
                        Call("fetch", providerMap[id].impl,
                             provider_user(providerMap[id], TokenBody)) >>,
            decryptedState)

\* callback from the token endpoint's response on, up to the fetch of
\* provider._user; so far it called `calls`.
callbackToken(id, calls, decryptedState, status) ==
  LET provider == providerMap[id]
      token == provider_callbackResponse(provider, status)
  IN  IF token.threw THEN Step("done", token, calls, decryptedState)
      ELSE Step("user", token,
                calls \o << Call("_user", provider.impl, NoRequest),
                            Call("fetch", provider.impl,
                                 provider_user(provider, token.value)) >>,
                decryptedState)

\* A callback that returns { user, token, data } whatever provider._user
\* did with the profile endpoint's response.
callbackUserIgnoringFailure(id, calls, decryptedState, token, status) ==
  Step("done",
       Returned([user |-> provider_userResponse(providerMap[id], status).value,
                 token |-> token,
                 data |-> RestWithout(kState, decryptedState)]),
       calls, decryptedState)

\* callback from the profile endpoint's response on: provider._user
\* awaits a second response, or callback returns { user, token, data }.
callbackUser(id, calls, decryptedState, token, status) ==
  LET provider == providerMap[id]
      user == provider_userResponse(provider, status)
  IN  IF user.threw THEN Step("done", user, calls, decryptedState)
      ELSE IF provider_userMore(provider)
      THEN Step("emails", user,
                Append(calls, Call("fetch", provider.impl, github_emails(token))),
                decryptedState)
      ELSE Step("done",
                Returned([user |-> user.value, token |-> token,
                          data |-> RestWithout(kState, decryptedState)]),
                calls, decryptedState)

\* callback from the end of the emails fetch on.
callbackEmailsAnswer(id, calls, decryptedState, token, userProfile, answer) ==
  Step("done",
       Returned([user |-> github_emailsAnswer(userProfile, answer),
                 token |-> token,
                 data |-> RestWithout(kState, decryptedState)]),
       calls, decryptedState)

\* callback from the emails endpoint's response on, when the endpoint lists
\* the one address of EmailsBody.
callbackEmails(id, calls, decryptedState, token, userProfile, status) ==
  callbackEmailsAnswer(id, calls, decryptedState, token, userProfile,
                       EmailsAnswer(FALSE, status, EmailsBody))

(***************************************************************************)
(* The inputs of the codec.                                                *)
(***************************************************************************)

\* How many different nonces crypto.randomBytes can draw.
MaxNonces == 2
\* The longest run of hex digits appended to a sealed string.
MaxAppend == 2
\* The most characters cut off either end of a sealed string.
MaxTruncate == 3
\* The most times a mapping is sealed again after it was unsealed.
MaxRounds == 2

\* The secret of crypto.test.ts and that secret with a suffix, shortened.
Secrets == {Str(<< "s", "1" >>), Str(<< "s", "1", "x" >>)}

\* The n-th value crypto.randomBytes(IV_LENGTH) can return.
Nonce(n) == [i \in 1..IV_LENGTH |-> (n * 37 + i * 11) % 256]
Nonces == {Nonce(n) : n \in 1..MaxNonces}

\* JSON-serializable mappings: empty, flat, with every scalar kind, with
\* characters JSON escapes and a non-ASCII character, and nested.
Mappings ==
  { JObj(<< >>),
    JObj(<< << Str(<< "n" >>), JStr(Str(<< "J", "o" >>)) >> >>),
    JObj(<< << Str(<< "a" >>), JNum(-1) >>, << Str(<< "b" >>), JNull >>,
            << Str(<< "c" >>), JBool(TRUE) >> >>),
    JObj(<< << Str(<< "q" >>), JStr(<< 233, 34, 92, 10 >>) >> >>),
    JObj(<< << Str(<< "o" >>),
               JObj(<< << Str(<< "k" >>), JArr(<< JNum(1) >>) >> >>) >> >>) }

\* JSON values that are no mapping.
NonMappings ==
  { JNull, JNum(7), JNum(0), JStr(Str(<< "h", "i" >>)), JStr(<< >>),
    JArr(<< JNum(1) >>), JBool(TRUE), JBool(FALSE) }

\* Characters written over one character of a sealed string: hex digits of
\* either case and a character that is no hex digit.
TamperChars == {Ord("0"), Ord("F"), Ord("z")}

\* Strings appended to a sealed string: runs of hex digits, and the suffix
\* of crypto.test.ts.
AppendSuffixes ==
  UNION {[1..n -> {Ord("0"), Ord("a")}] : n \in 1..MaxAppend}
    \cup {Str(<< "i", "n", "v", "a", "l", "i", "d" >>)}

\* Strings that no call of encrypt returned: empty, short, of the minimum
\* length and about it, with and without hex digits.
RawTexts ==
  {[i \in 1..n |-> Ord("0")] : n \in {0, 1, minLength - 1, minLength, minLength + 1}}
    \cup {[i \in 1..n |-> Ord("z")] : n \in {2, minLength, minLength + 3}}

(***************************************************************************)
(* The inputs of authorize and callback.                                   *)
(***************************************************************************)

\* How many times authorize is called.
MaxAuthorize == 2
\* How many random bytes a generated state or code verifier is made of.
RandomLength == 3

\* The ids that the application passes: the registered ones and another.
Ids == {"x", "discord", "github", "acme"}

\* What oauth.generateRandomState and oauth.generateRandomCodeVerifier
\* return on their n-th call: base64url of fresh random bytes.
generateRandomState(n) ==
  Base64UrlEncode([i \in 1..RandomLength |-> (n * 53 + i * 7) % 256])
generateRandomCodeVerifier(n) ==
  Base64UrlEncode([i \in 1..RandomLength |-> (n * 29 + i * 13 + 128) % 256])

kTag == Str(<< "t", "a", "g" >>)

\* The data passed to authorize: none, a property, and a property named
\* state with a number and with a string.
AuthorizeData ==
  { JObj(<< >>),
    JObj(<< << kTag, JStr(Str(<< "x" >>)) >> >>),
    JObj(<< << kState, JNum(5) >> >>),
    JObj(<< << kState, JStr(Str(<< "m", "e" >>)) >> >>) }

\* A secret that is not the process secret.
otherSecret == Str(<< "s", "1", "x" >>)

\* Values that code holding the process secret seals with the exported
\* encrypt: values that are no mapping, and mappings without a string state.
AppPayloads ==
  { JNull, JNum(7), JNum(0), JStr(Str(<< "h", "i" >>)), JArr(<< JStr(kState) >>),
    JObj(<< >>), JObj(<< << kState, JNum(5) >> >>),
    JObj(<< << kState, JNull >>, << kTag, JStr(Str(<< "x" >>)) >> >>) }

\* Sealed states that no authorize call returned: sealed under another
\* secret, no sealed string at all, and sealed by other code of the
\* application.
ForeignStates ==
  { [kind |-> "foreign",
     text |-> encrypt(otherSecret,
                      JObj(<< << kState, JStr(generateRandomState(1)) >> >>),
                      Nonce(1))] }
\* A string sealed under the process secret whose plaintext is no JSON text:
\* what code holding the secret makes with the cipher itself.
MalformedStates ==
  { [kind |-> "malformed",
     text |-> encryptPlain(keyToBuffer(secret), Nonce(1), Str(<< "{", "s" >>))] }
RawStates ==
  { [kind |-> "raw", text |-> << >>],
    [kind |-> "raw", text |-> [i \in 1..minLength |-> Ord("0")]] }
AppStates ==
  { [kind |-> "app", text |-> encrypt(secret, v, Nonce(1))] : v \in AppPayloads }

\* The sealed state that authorize returned with one hex digit replaced by
\* another: in the nonce, in the ciphertext and in the tag.
TamperedStates(text) ==
  { [kind |-> "tampered",
     text |-> [text EXCEPT ![pos] = IF @ = Ord("0") THEN Ord("1") ELSE Ord("0")]] :
      pos \in {1, IV_LENGTH * 2 + 1, Len(text)} }

\* The state parameters a callback URL carries: generated ones and one that
\* was never generated.
UrlStates ==
  {generateRandomState(n) : n \in 1..MaxAuthorize} \cup {Str(<< "m", "e" >>)}

\* Callback URLs: without a code, with an empty and with a non-empty code;
\* without a state and with each state; without and with an error
\* parameter.
CallbackUrls ==
  { [endpoint |-> "https://app/callback", query |-> code \o state \o other] :
      code \in {<< >>, << << kCode, << >> >> >>, << << kCode, Str(<< "c", "1" >>) >> >>},
      state \in {<< >>} \cup {<< << kState, st >> >> : st \in UrlStates},
      other \in {<< >>, << << Str(<< "e", "r", "r", "o", "r" >>), Str(<< "x" >>) >> >>} }

\* The statuses an endpoint answers with.
Statuses == {200, 401}

\* An entry of the list of the emails endpoint.
GitHubEmail(email, primary, verified) ==
  JObj(<< << kEmail, JStr(email) >>, << kPrimary, JBool(primary) >>,
          << kVerified, JBool(verified) >> >>)

\* The lists the emails endpoint answers with: none, the one address, two
\* of which none is both primary and verified, and three of which the
\* second and the third are.
EmailLists ==
  { JArr(<< >>), EmailsBody,
    JArr(<< GitHubEmail(Str(<< "b" >>), FALSE, TRUE), GitHubEmail(Str(<< "c" >>), TRUE, FALSE) >>),
    JArr(<< GitHubEmail(Str(<< "b" >>), TRUE, FALSE), GitHubEmail(Str(<< "a" >>), TRUE, TRUE),
            GitHubEmail(Str(<< "d" >>), TRUE, TRUE) >>) }

\* How the fetch of the emails endpoint ends: it throws (status 0 stands
\* for no response), the endpoint refuses, or it answers with a list.
EmailsAnswers ==
  {EmailsAnswer(TRUE, 0, JNull), EmailsAnswer(FALSE, 401, JNull)}
    \cup {EmailsAnswer(FALSE, 200, list) : list \in EmailLists}

(***************************************************************************)
(* The inputs of the discovering providers.                                *)
(***************************************************************************)

\* How many calls of one provider instance are in flight at once, and how
\* many are made in all.
MaxInFlight == 2
MaxCalls == 2

Calls == 1..MaxInFlight

\* The providers that discover their endpoints.
DiscoveringProviders == {"google", "linkedin", "vercel"}

ProviderOps == {"_authorization", "_callback", "_user"}

\* The n-th document the issuer publishes.
DiscoveryDoc(n) ==
  AuthorizationServer("https://issuer.example",
                      "https://issuer.example/authorize/" \o ToString(n),
                      "https://issuer.example/token/" \o ToString(n),
                      "https://issuer.example/userinfo/" \o ToString(n))

\* The documents: the issuer's first and its next one, and one without an
\* authorization endpoint.
DiscoveryDocs ==
  {DiscoveryDoc(1), DiscoveryDoc(2)}
    \cup {AuthorizationServer("https://issuer.example", "",
                              "https://issuer.example/token/0",
                              "https://issuer.example/userinfo/0")}

\* What a discovery request ends with: a document, or a failure.
DiscoveryOutcome(ok, as) == [ok |-> ok, as |-> as]
DiscoveryOutcomes ==
  {DiscoveryOutcome(TRUE, doc) : doc \in DiscoveryDocs}
    \cup {DiscoveryOutcome(FALSE, NoServer)}

\* The callback URL, state and code verifier the operations are given.
oidcState == generateRandomState(1)
oidcCodeVerifier == generateRandomCodeVerifier(1)
oidcUrl ==
  [endpoint |-> "https://app/callback",
   query |-> << << kCode, Str(<< "c", "1" >>) >>, << kState, oidcState >> >>]

\* The code verifiers an operation is given: _authorization is also called
\* with an empty one.
VerifiersFor(op) ==
  IF op = "_authorization" THEN {oidcCodeVerifier, << >>} ELSE {oidcCodeVerifier}

\* A callback URL whose state parameter is not the state the operations are
\* given.
oidcForgedUrl ==
  [endpoint |-> "https://app/callback",
   query |-> << << kCode, Str(<< "c", "1" >>) >>, << kState, generateRandomState(2) >> >>]

\* The callback URLs an operation is given: only _callback takes one.
UrlsFor(op) == IF op = "_callback" THEN {oidcUrl, oidcForgedUrl} ELSE {NoUrl}

(***************************************************************************)
(* The inputs of concurrent invocations.                                   *)
(***************************************************************************)

\* The invocations of authorize and callback in flight together: a first
\* and a second one.
Slots == {1, 2}

\* The ids and the data they pass: two registered providers, so that
\* invocations meet on one provider and on two.
ConcurrentIds == {"x", "github"}
ConcurrentData == {JObj(<< >>), JObj(<< << kTag, JStr(Str(<< "x" >>)) >> >>)}

(***************************************************************************)
(* What buildAuthorizationUrl is called with.                              *)
(***************************************************************************)

\* Code verifiers and states: generated ones and a hand-made one.
UrlVerifiers ==
  {generateRandomCodeVerifier(n) : n \in 1..MaxAuthorize} \cup {Str(<< "v" >>)}

\* Scope lists: none, one and two scopes.
UrlScopes ==
  { << >>, << Str(<< "o", "p", "e", "n", "i", "d" >>) >>,
    << Str(<< "o", "p", "e", "n", "i", "d" >>), Str(<< "e", "m", "a", "i", "l" >>) >> }

\* Object.entries(extraParams): none, those of google, one named like a
\* standard parameter, and a new one together with standard ones.
ExtraParams ==
  { << >>,
    googleExtraParams,
    << << kState, Str(<< "m", "i", "n", "e" >>) >> >>,
    << << Str(<< "p", "r", "o", "m", "p", "t" >>), Str(<< "n", "o", "n", "e" >>) >>,
       << Str(<< "s", "c", "o", "p", "e" >>), Str(<< "a", "l", "l" >>) >>,
       << Str(<< "c", "l", "i", "e", "n", "t", "_", "i", "d" >>), Str(<< "o", "t", "h", "e", "r" >>) >> >>,
    << << Str(<< "c", "o", "d", "e", "_", "c", "h", "a", "l", "l", "e", "n", "g", "e", "_", "m", "e", "t", "h", "o", "d" >>),
          Str(<< "p", "l", "a", "i", "n" >>) >> >> }

\* The modules that make providers.
ProviderModules == {"x", "discord", "github"} \cup DiscoveringProviders

\* The scopes a configuration provides: none, an empty list, a default
\* scope of most providers, and a new scope twice around a default one.
ProvidedScopes ==
  { NotProvided,
    Provided(<< >>),
    Provided(<< Str(<< "e", "m", "a", "i", "l" >>) >>),
    Provided(<< Str(<< "a", "d", "s" >>), Str(<< "o", "p", "e", "n", "i", "d" >>),
                Str(<< "a", "d", "s" >>) >>) }

\* The code verifiers _authorization is called with: a generated one and an
\* empty one.
AuthorizationVerifiers == {generateRandomCodeVerifier(1), << >>}

(***************************************************************************)
(* State.                                                                  *)
(***************************************************************************)

VARIABLES
  cPc,      \* codec run: "start", "sealed", "edited" or "opened"
  cKey,     \* the key passed to encrypt
  cData,    \* the data passed to the first encrypt
  cIv,      \* the nonce the latest encrypt drew
  cSealed,  \* the string the latest encrypt returned
  cPrevIv,  \* the nonce of the encrypt call before it (same key and data)
  cPrev,    \* the string that call returned, << >> if there was none
  cText,    \* the string passed to decrypt
  cEdit,    \* how cText was made: "none", "change", "append", "truncate", "raw"
  cDecKey,  \* the key passed to decrypt
  cOut,     \* the value decrypt returned
  cRounds,  \* how many times the unsealed value was sealed again
  oPc,      \* the invocation: "idle", at "provider", "token", "user" or
            \* "emails", "done"
  oOp,      \* the operation invoked: "none", "authorize" or "callback"
  oId,      \* the provider id passed to it
  oArgs,    \* its other arguments
  oOpened,  \* callback's decryptedState
  oToken,   \* callback's token
  oUser,    \* the profile that provider._user has fetched so far
  oAnswers, \* the responses the invocation got: endpoint and status
  oResult,  \* what the invocation returned or threw
  oCalls,   \* what the invocation called, in order
  issued,   \* what the latest authorize call returned to the application
  rng,      \* how many times authorize has drawn its random values
  consumed, \* whether a callback has returned with the sealed state of the
            \* latest authorize call; the code keeps no such record
  uPc,      \* URL building: "idle", "built", or "threw"
  uVia,     \* what built the URL: "none", "buildAuthorizationUrl", "authorize"
            \* or "_authorization"
  uArgs,    \* the options buildAuthorizationUrl was given
  uUrl,     \* the URL that was built
  uImpl,    \* the module of the provider whose _authorization was called
  uConfig,  \* the configuration that provider was made with
  uError,   \* what the call threw, if it threw
  dImpl,    \* the discovering provider that was made: "none" before
  dAs,      \* its variable `as`
  dCalls,   \* the calls of its operations in flight
  dRequests,  \* how many discovery requests it has sent
  dSucceeded, \* whether a discovery request of it has succeeded
  dLate,    \* how many discovery requests it has sent after that
  dStarted, \* how many calls were made
  nInv,     \* the invocations of authorize and callback in flight: the
            \* local variables of each
  nIssued,  \* the sealed states that authorize has returned
  nStates,  \* how many states and nonces were drawn
  nVerifiers, \* how many code verifiers were drawn
  vPc,      \* the example server's request: "idle", at "callback" (awaiting
            \* auth.callback), "responded"
  vRoute,   \* the route of the request: "none", "authorize" or "callback"
  vProvider,  \* its :provider parameter
  vReq,     \* the constants state and codeVerifier of the callback route:
            \* what cookies.get returned
  vCookies, \* the two cookies as the browser holds them
  vCalled,  \* whether the request has called auth.callback
  vResponse,  \* the status of the response, 0 before there is one
  vDrawn    \* how many times the server's authorize has drawn random values

codecVars ==
  << cPc, cKey, cData, cIv, cSealed, cPrevIv, cPrev, cText, cEdit, cDecKey,
     cOut, cRounds >>

orchVars ==
  << oPc, oOp, oId, oArgs, oOpened, oToken, oUser, oAnswers, oResult, oCalls,
     issued, rng, consumed >>

urlVars == << uPc, uVia, uArgs, uUrl, uImpl, uConfig, uError >>

discoveryVars ==
  << dImpl, dAs, dCalls, dRequests, dSucceeded, dLate, dStarted >>

concurrentVars == << nInv, nIssued, nStates, nVerifiers >>

serverVars ==
  << vPc, vRoute, vProvider, vReq, vCookies, vCalled, vResponse, vDrawn >>

vars ==
  << codecVars, orchVars, urlVars, discoveryVars, concurrentVars, serverVars >>

\* What the actions of one part leave alone.
notCodecVars == << orchVars, urlVars, discoveryVars, concurrentVars, serverVars >>
notOrchVars == << codecVars, urlVars, discoveryVars, concurrentVars, serverVars >>
notUrlVars == << codecVars, orchVars, discoveryVars, concurrentVars, serverVars >>
notDiscoveryVars == << codecVars, orchVars, urlVars, concurrentVars, serverVars >>
notConcurrentVars == << codecVars, orchVars, urlVars, discoveryVars, serverVars >>
notServerVars == << codecVars, orchVars, urlVars, discoveryVars, concurrentVars >>

CodecInit ==
  /\ cPc = "start"
  /\ cKey = << >>
  /\ cData = JNull
  /\ cIv = << >>
  /\ cSealed = << >>
  /\ cPrevIv = << >>
  /\ cPrev = << >>
  /\ cText = << >>
  /\ cEdit = "none"
  /\ cDecKey = << >>
  /\ cOut = JNull
  /\ cRounds = 0

\* An invocation's arguments: data of authorize; url, codeVerifier and state
\* of callback, and how that state was made.
Args(data, url, codeVerifier, state, kind) ==
  [data |-> data, url |-> url, codeVerifier |-> codeVerifier, state |-> state,
   kind |-> kind]
NoArgs == Args(JNull, NoUrl, << >>, << >>, "none")

\* What the application holds of the latest authorize call: the id and data
\* it passed, the state that was generated, and the three values returned.
Issued(id, data, csrf, value) ==
  [some |-> TRUE, id |-> id, data |-> data, csrf |-> csrf, url |-> value.url,
   state |-> value.state, codeVerifier |-> value.codeVerifier]
NotIssued ==
  [some |-> FALSE, id |-> "", data |-> JNull, csrf |-> << >>, url |-> NoUrl,
   state |-> << >>, codeVerifier |-> << >>]

OrchInit ==
  /\ oPc = "idle"
  /\ oOp = "none"
  /\ oId = ""
  /\ oArgs = NoArgs
  /\ oOpened = JNull
  /\ oToken = JNull
  /\ oUser = JNull
  /\ oAnswers = << >>
  /\ oResult = Returned(JNull)
  /\ oCalls = << >>
  /\ issued = NotIssued
  /\ rng = 0
  /\ consumed = FALSE

\* The options of buildAuthorizationUrl.
UrlOptions(authorizationEndpoint, clientId, redirectUri, scopes, codeVerifier, state, extraParams) ==
  [authorizationEndpoint |-> authorizationEndpoint, clientId |-> clientId,
   redirectUri |-> redirectUri, scopes |-> scopes,
   codeVerifier |-> codeVerifier, state |-> state, extraParams |-> extraParams]
NoOptions == UrlOptions("", << >>, << >>, << >>, << >>, << >>, << >>)

\* No configuration: no provider was made.
NoConfig ==
  [clientId |-> << >>, clientSecret |-> << >>, redirectUri |-> << >>,
   scopes |-> NotProvided]

UrlInit ==
  /\ uPc = "idle"
  /\ uVia = "none"
  /\ uArgs = NoOptions
  /\ uUrl = NoUrl
  /\ uImpl = "none"
  /\ uConfig = NoConfig
  /\ uError = Returned(JNull)

\* A call of an operation: where it stands ("idle" when the slot is free,
\* at "discovery", "resolved" when authorizationServer() has returned and
\* the operation has not resumed, at "fetch", "done"), the operation, the
\* code verifier and the callback URL it was given, the document it holds,
\* what `as` was when it began, and its outcome.
ProviderCallOf(pc, op, codeVerifier, url, mine, cached, result) ==
  [pc |-> pc, op |-> op, codeVerifier |-> codeVerifier, url |-> url,
   mine |-> mine, cached |-> cached, result |-> result]
NoCall == ProviderCallOf("idle", "none", << >>, NoUrl, NoServer, NoServer, NoOutcome)

DiscoveryInit ==
  /\ dImpl = "none"
  /\ dAs = NoServer
  /\ dCalls = [p \in Calls |-> NoCall]
  /\ dRequests = 0
  /\ dSucceeded = FALSE
  /\ dLate = 0
  /\ dStarted = 0

\* The local variables of an invocation that has not begun.
NoInvocation ==
  [pc |-> "idle", op |-> "none", id |-> "", data |-> JNull, state |-> << >>,
   iv |-> << >>, encryptedWithState |-> << >>, codeVerifier |-> << >>,
   url |-> NoUrl, decryptedState |-> JNull, token |-> JNull, user |-> JNull,
   answers |-> << >>, calls |-> << >>, result |-> Returned(JNull)]

ConcurrentInit ==
  /\ nInv = [i \in Slots |-> NoInvocation]
  /\ nIssued = {}
  /\ nStates = 0
  /\ nVerifiers = 0

\* A cookie of the browser: whether it is there, and its value.
Cookie(value) == [set |-> TRUE, value |-> value]
NoCookie == [set |-> FALSE, value |-> << >>]

\* The cookies _authingy_state_ and _authingy_code_verifier_.
Cookies(state, codeVerifier) == [state |-> state, codeVerifier |-> codeVerifier]

ServerInit ==
  /\ vPc = "idle"
  /\ vRoute = "none"
  /\ vProvider = ""
  /\ vReq = Cookies(NoCookie, NoCookie)
  /\ vCookies = Cookies(NoCookie, NoCookie)
  /\ vCalled = FALSE
  /\ vResponse = 0
  /\ vDrawn = 0

Init ==
  /\ CodecInit /\ OrchInit /\ UrlInit /\ DiscoveryInit /\ ConcurrentInit
  /\ ServerInit

(***************************************************************************)
(* Codec runs: calls of encrypt and decrypt, and what is done to the       *)
(* sealed string in between.                                               *)
(***************************************************************************)

\* encrypt(key, data), the first call of a run.
Encrypt(key, data, iv) ==
  /\ cPc = "start"
  /\ cPc' = "sealed"
  /\ cKey' = key
  /\ cData' = data
  /\ cIv' = iv
  /\ cSealed' = encrypt(key, data, iv)
  /\ cText' = cSealed'
  /\ UNCHANGED << cPrevIv, cPrev, cEdit, cDecKey, cOut, cRounds >>
  /\ UNCHANGED notCodecVars

\* encrypt(key, data) called a second time with the same key and data.
EncryptAgain(iv) ==
  /\ cPc = "sealed"
  /\ cPrev = << >>
  /\ cRounds = 0
  /\ cPrevIv' = cIv
  /\ cPrev' = cSealed
  /\ cIv' = iv
  /\ cSealed' = encrypt(cKey, cData, iv)
  /\ cText' = cSealed'
  /\ UNCHANGED << cPc, cKey, cData, cEdit, cDecKey, cOut, cRounds >>
  /\ UNCHANGED notCodecVars

\* The string of the earlier of the two calls is the one to be decrypted.
UsePrevious ==
  /\ cPc = "sealed"
  /\ cPrev # << >>
  /\ cText = cSealed
  /\ cText' = cPrev
  /\ UNCHANGED << cPc, cKey, cData, cIv, cSealed, cPrevIv, cPrev, cEdit,
                  cDecKey, cOut, cRounds >>
  /\ UNCHANGED notCodecVars

\* One character of the sealed string is replaced by another.
ChangeChar(pos, c) ==
  /\ cPc = "sealed"
  /\ cPrev = << >>
  /\ cRounds = 0
  /\ cData.t = "obj"
  /\ pos \in 1..Len(cSealed)
  /\ cSealed[pos] # c
  /\ cText' = [cSealed EXCEPT ![pos] = c]
  /\ cEdit' = "change"
  /\ cPc' = "edited"
  /\ UNCHANGED << cKey, cData, cIv, cSealed, cPrevIv, cPrev, cDecKey, cOut,
                  cRounds >>
  /\ UNCHANGED notCodecVars

\* Characters are appended to the sealed string.
AppendChars(suffix) ==
  /\ cPc = "sealed"
  /\ cPrev = << >>
  /\ cRounds = 0
  /\ cData.t = "obj"
  /\ cText' = cSealed \o suffix
  /\ cEdit' = "append"
  /\ cPc' = "edited"
  /\ UNCHANGED << cKey, cData, cIv, cSealed, cPrevIv, cPrev, cDecKey, cOut,
                  cRounds >>
  /\ UNCHANGED notCodecVars

\* n characters are cut off the end (atEnd) or the start of the sealed string.
Truncate(n, atEnd) ==
  /\ cPc = "sealed"
  /\ cPrev = << >>
  /\ cRounds = 0
  /\ cData.t = "obj"
  /\ n < Len(cSealed)
  /\ cText' = IF atEnd THEN SubSeq(cSealed, 1, Len(cSealed) - n)
              ELSE SubSeq(cSealed, n + 1, Len(cSealed))
  /\ cEdit' = "truncate"
  /\ cPc' = "edited"
  /\ UNCHANGED << cKey, cData, cIv, cSealed, cPrevIv, cPrev, cDecKey, cOut,
                  cRounds >>
  /\ UNCHANGED notCodecVars

\* A string that encrypt never returned is the one to be decrypted.
RawInput(text) ==
  /\ cPc = "start"
  /\ cText' = text
  /\ cEdit' = "raw"
  /\ cPc' = "edited"
  /\ UNCHANGED << cKey, cData, cIv, cSealed, cPrevIv, cPrev, cDecKey, cOut,
                  cRounds >>
  /\ UNCHANGED notCodecVars

\* decrypt(key, cText).
Decrypt(key) ==
  /\ cPc \in {"sealed", "edited"}
  /\ cDecKey' = key
  /\ cOut' = decrypt(key, cText)
  /\ cPc' = "opened"
  /\ UNCHANGED << cKey, cData, cIv, cSealed, cPrevIv, cPrev, cText, cEdit,
                  cRounds >>
  /\ UNCHANGED notCodecVars

\* encrypt(key, value) on the value decrypt returned, under the same key.
Reseal(iv) ==
  /\ cPc = "opened"
  /\ cEdit = "none"
  /\ cPrev = << >>
  /\ cDecKey = cKey
  /\ cOut.t = "obj"
  /\ cRounds < MaxRounds
  /\ cRounds' = cRounds + 1
  /\ cIv' = iv
  /\ cSealed' = encrypt(cKey, cOut, iv)
  /\ cText' = cSealed'
  /\ cPc' = "sealed"
  /\ UNCHANGED << cKey, cData, cPrevIv, cPrev, cEdit, cDecKey, cOut >>
  /\ UNCHANGED notCodecVars

CodecNext ==
  \/ \E key \in Secrets, data \in Mappings \cup NonMappings, iv \in Nonces :
       Encrypt(key, data, iv)
  \/ \E iv \in Nonces : EncryptAgain(iv)
  \/ UsePrevious
  \/ \E pos \in 1..Len(cSealed), c \in TamperChars : ChangeChar(pos, c)
  \/ \E suffix \in AppendSuffixes : AppendChars(suffix)
  \/ \E n \in 1..MaxTruncate, atEnd \in BOOLEAN : Truncate(n, atEnd)
  \/ \E text \in RawTexts : RawInput(text)
  \/ \E key \in Secrets : Decrypt(key)
  \/ \E iv \in Nonces : Reseal(iv)

CodecSpec == Init /\ [][CodecNext]_vars

(***************************************************************************)
(* Invocations of authorize and callback, one at a time.                   *)
(***************************************************************************)

\* The invocation took the step r: it stands where r says, with r's outcome
\* and calls.
Took(r) ==
  /\ oPc' = r.pc
  /\ oResult' = r.result
  /\ oCalls' = r.calls

\* authorize returned or threw r, having generated state.
Authorized(id, data, state, r) ==
  /\ Took(r)
  /\ issued' = IF r.result.threw THEN issued
               ELSE Issued(id, data, state, r.result.value)
  /\ consumed' = (r.result.threw /\ consumed)

\* authorize(id, data) is called and returns or throws.
Authorize(id, data) ==
  /\ oPc = "idle"
  /\ rng < MaxAuthorize
  /\ Authorized(id, data, generateRandomState(rng + 1),
                authorize(id, data, generateRandomState(rng + 1),
                          Nonce(rng + 1), generateRandomCodeVerifier(rng + 1)))
  /\ rng' = IF id \in DOMAIN providerMap THEN rng + 1 ELSE rng
  /\ oOp' = "authorize"
  /\ oId' = id
  /\ oArgs' = Args(data, NoUrl, << >>, << >>, "none")
  /\ UNCHANGED << oOpened, oToken, oUser, oAnswers >>
  /\ UNCHANGED notOrchVars

\* callback ran up to r, having unsealed r.decryptedState.
Unsealed(r) == Took(r) /\ oOpened' = r.decryptedState

\* callback ran up to r and now holds a token if r says so.
TokenTaken(r) ==
  /\ oPc' = r.pc
  /\ oResult' = IF r.pc = "done" THEN r.result ELSE oResult
  /\ oToken' = IF r.pc = "done" THEN oToken ELSE r.result.value
  /\ oCalls' = r.calls

\* A callback that refuses a sealed state with which a callback has
\* returned before.
CallbackOnce(id, sealed) ==
  /\ oPc = "idle"
  /\ Unsealed(IF consumed /\ sealed.kind = "issued"
              THEN Step("done", Threw(InvalidStateError),
                        << Call("decrypt", "authingy", NoRequest) >>, JNull)
              ELSE callback(id, sealed.text))
  /\ oOp' = "callback"
  /\ oId' = id
  /\ oArgs' = Args(JNull, NoUrl, << >>, sealed.text, sealed.kind)
  /\ UNCHANGED << oToken, oUser, oAnswers, issued, rng, consumed >>
  /\ UNCHANGED notOrchVars

\* A callback that takes the sealed state of the latest authorize call only
\* for the provider that call was for.
CallbackForIssuer(id, sealed) ==
  /\ oPc = "idle"
  /\ Unsealed(IF id \in DOMAIN providerMap /\ sealed.kind = "issued" /\ id # issued.id
              THEN Step("done", Threw(InvalidStateError),
                        << Call("decrypt", "authingy", NoRequest) >>,
                        decrypt(secret, sealed.text))
              ELSE callback(id, sealed.text))
  /\ oOp' = "callback"
  /\ oId' = id
  /\ oArgs' = Args(JNull, NoUrl, << >>, sealed.text, sealed.kind)
  /\ UNCHANGED << oToken, oUser, oAnswers, issued, rng, consumed >>
  /\ UNCHANGED notOrchVars

\* callback(id, { url, codeVerifier, state }) is called and runs until it
\* throws or is about to call provider._callback; options.url and
\* options.codeVerifier are drawn where the code first reads them.
Callback(id, sealed) ==
  /\ oPc = "idle"
  /\ Unsealed(callback(id, sealed.text))
  /\ oOp' = "callback"
  /\ oId' = id
  /\ oArgs' = Args(JNull, NoUrl, << >>, sealed.text, sealed.kind)
  /\ UNCHANGED << oToken, oUser, oAnswers, issued, rng, consumed >>
  /\ UNCHANGED notOrchVars

\* callback calls provider._callback with options.url and
\* options.codeVerifier, which runs until it throws or awaits the token
\* endpoint.
ProviderCallback(url, codeVerifier) ==
  /\ oPc = "provider"
  /\ Took(callbackProvider(oId, oCalls, oOpened, url, codeVerifier))
  /\ oArgs' = [oArgs EXCEPT !.url = url, !.codeVerifier = codeVerifier]
  /\ UNCHANGED << oOp, oId, oOpened, oToken, oUser, oAnswers, issued, rng, consumed >>
  /\ UNCHANGED notOrchVars

\* The token endpoint answers, and callback runs until it throws or awaits
\* the profile endpoint.
TokenResponse(status) ==
  /\ oPc = "token"
  /\ TokenTaken(callbackToken(oId, oCalls, oOpened, status))
  /\ oAnswers' = Append(oAnswers, Answer("token", status))
  /\ UNCHANGED << oOp, oId, oArgs, oOpened, oUser, issued, rng, consumed >>
  /\ UNCHANGED notOrchVars

\* callback ran up to r and now holds a profile if r says so.
UserTaken(r) ==
  /\ oPc' = r.pc
  /\ oResult' = IF r.pc = "done" THEN r.result ELSE oResult
  /\ oUser' = IF r.pc = "done" THEN oUser ELSE r.result.value
  /\ oCalls' = r.calls

\* The profile endpoint answers, and callback returns, throws or awaits
\* the emails endpoint.
UserResponse(status) ==
  /\ oPc = "user"
  /\ UserTaken(callbackUser(oId, oCalls, oOpened, oToken, status))
  /\ oAnswers' = Append(oAnswers, Answer("user", status))
  /\ UNCHANGED << oOp, oId, oArgs, oOpened, oToken, issued, rng, consumed >>
  /\ UNCHANGED notOrchVars

\* The emails endpoint answers, and callback returns.
EmailsResponse(answer) ==
  /\ oPc = "emails"
  /\ Took(callbackEmailsAnswer(oId, oCalls, oOpened, oToken, oUser, answer))
  /\ oAnswers' = Append(oAnswers, [Answer("emails", answer.status) EXCEPT !.body = answer.body])
  /\ UNCHANGED << oOp, oId, oArgs, oOpened, oToken, oUser, issued, rng, consumed >>
  /\ UNCHANGED notOrchVars

\* The application has taken the outcome; the next invocation starts afresh.
Return ==
  /\ oPc = "done"
  /\ oPc' = "idle"
  /\ oOp' = "none"
  /\ oId' = ""
  /\ oArgs' = NoArgs
  /\ oOpened' = JNull
  /\ oToken' = JNull
  /\ oUser' = JNull
  /\ oAnswers' = << >>
  /\ oResult' = Returned(JNull)
  /\ oCalls' = << >>
  /\ consumed' = (consumed \/ (oOp = "callback" /\ ~oResult.threw
                                 /\ oArgs.kind = "issued"))
  /\ UNCHANGED << issued, rng >>
  /\ UNCHANGED notOrchVars

\* The sealed states the application can pass to callback.
SealedStates ==
  (IF issued.some
   THEN {[kind |-> "issued", text |-> issued.state]}
          \cup TamperedStates(issued.state)
   ELSE {})
    \cup ForeignStates \cup RawStates \cup MalformedStates \cup AppStates

\* The code verifiers it can pass: the one authorize returned, and another.
CallbackVerifiers == {issued.codeVerifier, Str(<< "v" >>)}

Next ==
  \/ \E id \in Ids, data \in AuthorizeData : Authorize(id, data)
  \/ \E id \in Ids, sealed \in SealedStates : Callback(id, sealed)
  \/ \E url \in CallbackUrls, codeVerifier \in CallbackVerifiers :
       ProviderCallback(url, codeVerifier)
  \/ \E status \in Statuses : TokenResponse(status)
  \/ \E status \in Statuses : UserResponse(status)
  \/ \E answer \in EmailsAnswers : EmailsResponse(answer)
  \/ Return

Spec == Init /\ [][Next]_vars

(***************************************************************************)
(* Building authorization URLs: buildAuthorizationUrl on its own, and      *)
(* through authorize.                                                      *)
(***************************************************************************)

\* buildAuthorizationUrl(options) is called and returns.
BuildUrl(o) ==
  /\ uPc = "idle"
  /\ uPc' = "built"
  /\ uVia' = "buildAuthorizationUrl"
  /\ uArgs' = o
  /\ uUrl' = buildAuthorizationUrl(o.authorizationEndpoint, o.clientId,
                                   o.redirectUri, o.scopes, o.codeVerifier,
                                   o.state, o.extraParams)
  /\ UNCHANGED << uImpl, uConfig, uError >>
  /\ UNCHANGED notUrlVars

\* The URL of what authorize returned.
UrlOf(r) == IF r.result.threw THEN NoUrl ELSE r.result.value.url

\* authorize(id, data) is called for a registered provider, its n-th draws
\* being the state and the code verifier, and returns a URL.
AuthorizeUrl(id, data, n) ==
  /\ uPc = "idle"
  /\ uPc' = "built"
  /\ uVia' = "authorize"
  /\ uArgs' = UrlOptions("", << >>, << >>, << >>,
                         generateRandomCodeVerifier(n), generateRandomState(n),
                         << >>)
  /\ uUrl' = UrlOf(authorize(id, data, generateRandomState(n), Nonce(n),
                             generateRandomCodeVerifier(n)))
  /\ UNCHANGED << uImpl, uConfig, uError >>
  /\ UNCHANGED notUrlVars

\* The configuration a provider is made with: the model's configuration of
\* its module with these scopes.
ConfigWith(impl, providedScopes) ==
  [(CASE impl = "x" -> xConfig
      [] impl = "discord" -> discordConfig
      [] impl = "github" -> githubConfig
      [] OTHER -> oidcConfig) EXCEPT !.scopes = providedScopes]

\* What an operation of a discovering provider did, as the value it
\* returned or the error it threw.
OutcomeResult(o) == IF o.threw THEN Threw(o.error) ELSE Returned(o.url)

\* _authorization({ state, codeVerifier }) of a discovering provider whose
\* discovery request gets the document as.
discovering_authorizationOf(impl, config, as, state, codeVerifier) ==
  IF ThrowsAtOnce("_authorization", codeVerifier)
  THEN Threw(MissingVerifierError(impl))
  ELSE OutcomeResult(oidc_authorizationOf(impl, config, as, state, codeVerifier))

\* _authorization({ state, codeVerifier }) of the provider that the module
\* made with config.
authorizationOf(impl, config, state, codeVerifier) ==
  CASE impl = "x" -> x_authorizationOf(config, state, codeVerifier)
    [] impl = "discord" -> discord_authorizationOf(config, state, codeVerifier)
    [] impl = "github" -> github_authorizationOf(config, state, codeVerifier)
    [] OTHER -> discovering_authorizationOf(impl, config, DiscoveryDoc(1),
                                            state, codeVerifier)

\* The call of _authorization ended with r.
AuthorizationEnded(r) ==
  /\ uPc' = IF r.threw THEN "threw" ELSE "built"
  /\ uUrl' = IF r.threw THEN NoUrl ELSE r.value
  /\ uError' = IF r.threw THEN r ELSE Returned(JNull)

\* A provider is made with a configuration, and its _authorization is called
\* and returns a URL or throws.
ProviderAuthorization(impl, providedScopes, codeVerifier) ==
  /\ uPc = "idle"
  /\ AuthorizationEnded(authorizationOf(impl, ConfigWith(impl, providedScopes),
                                        oidcState, codeVerifier))
  /\ uVia' = "_authorization"
  /\ uImpl' = impl
  /\ uConfig' = ConfigWith(impl, providedScopes)
  /\ uArgs' = UrlOptions("", << >>, << >>, << >>, codeVerifier, oidcState, << >>)
  /\ UNCHANGED notUrlVars

\* The caller has taken the URL or the error.
UrlTaken ==
  /\ uPc # "idle"
  /\ uPc' = "idle"
  /\ uVia' = "none"
  /\ uArgs' = NoOptions
  /\ uUrl' = NoUrl
  /\ uImpl' = "none"
  /\ uConfig' = NoConfig
  /\ uError' = Returned(JNull)
  /\ UNCHANGED notUrlVars

\* The options buildAuthorizationUrl is called with.
BuildOptions ==
  { UrlOptions("https://as.example/authorize", Str(<< "c", "i", "d" >>),
               Str(<< "/", "c", "b" >>), scopes, codeVerifier, state, extraParams) :
      scopes \in UrlScopes, codeVerifier \in UrlVerifiers, state \in UrlStates,
      extraParams \in ExtraParams }

UrlNext ==
  \/ \E o \in BuildOptions : BuildUrl(o)
  \/ \E id \in DOMAIN providerMap, data \in AuthorizeData, n \in 1..MaxAuthorize :
       AuthorizeUrl(id, data, n)
  \/ \E impl \in ProviderModules, providedScopes \in ProvidedScopes,
        codeVerifier \in AuthorizationVerifiers :
       ProviderAuthorization(impl, providedScopes, codeVerifier)
  \/ UrlTaken

UrlSpec == Init /\ [][UrlNext]_vars

(***************************************************************************)
(* A discovering provider: concurrent calls of the operations of one       *)
(* instance.  Each await is a step, so that calls interleave as            *)
(* JavaScript lets them.                                                   *)
(***************************************************************************)

\* google(config), linkedin(config) or vercel(config) is called.
CreateProvider(impl) ==
  /\ dImpl = "none"
  /\ dImpl' = impl
  /\ UNCHANGED << dAs, dCalls, dRequests, dSucceeded, dLate, dStarted >>
  /\ UNCHANGED notDiscoveryVars

\* How an operation begins: through authorizationServer(), or with a
\* discovery request of its own.
Begin(op) ==
  IF UsesAuthorizationServer(dImpl, op) THEN authorizationServer(dAs)
  ELSE [request |-> TRUE, as |-> dAs, value |-> NoServer]

\* An operation is called and runs up to its first await, or throws before
\* it; the call takes the first free slot.
ProviderCall(p, op, codeVerifier, url) ==
  /\ dImpl # "none"
  /\ dCalls[p].pc = "idle"
  /\ \A q \in 1..(p - 1) : dCalls[q].pc # "idle"
  /\ dStarted < MaxCalls
  /\ dAs' = IF ThrowsAtOnce(op, codeVerifier) THEN dAs ELSE Begin(op).as
  /\ dCalls' = [dCalls EXCEPT ![p] =
       IF ThrowsAtOnce(op, codeVerifier)
       THEN ProviderCallOf("done", op, codeVerifier, url, NoServer, dAs,
                           Outcome(TRUE, MissingVerifierError(dImpl), NoUrl, ""))
       ELSE ProviderCallOf(IF Begin(op).request THEN "discovery" ELSE "resolved",
                           op, codeVerifier, url, Begin(op).value, dAs, NoOutcome)]
  /\ dRequests' = dRequests
       + IF ~ThrowsAtOnce(op, codeVerifier) /\ Begin(op).request THEN 1 ELSE 0
  /\ dLate' = dLate
       + IF ~ThrowsAtOnce(op, codeVerifier) /\ Begin(op).request /\ dSucceeded
         THEN 1 ELSE 0
  /\ dStarted' = dStarted + 1
  /\ UNCHANGED << dImpl, dSucceeded >>
  /\ UNCHANGED notDiscoveryVars

\* An authorizationServer() that keeps in `as` what a failed discovery
\* request left.
DiscoveredKeepingFailure(p, r) ==
  /\ dCalls' = [dCalls EXCEPT ![p] =
       IF r.threw
       THEN [@ EXCEPT !.pc = "done", !.result = Outcome(TRUE, r.error, NoUrl, "")]
       ELSE IF UsesAuthorizationServer(dImpl, @.op)
       THEN [@ EXCEPT !.pc = "resolved", !.mine = r.as]
       ELSE [@ EXCEPT !.pc = "fetch", !.mine = r.as,
                      !.result = Outcome(FALSE, TypeError(Text("")), NoUrl,
                                         r.as.userinfo_endpoint)]]
  /\ dAs' = IF UsesAuthorizationServer(dImpl, dCalls[p].op)
            THEN (IF r.threw THEN PendingServer ELSE r.as) ELSE dAs
  /\ dSucceeded' = (dSucceeded \/ ~r.threw)

\* The call's discovery request ended with r: the operation throws, or
\* authorizationServer() assigns the document to `as` and returns it, or
\* google._user goes on to its request.
Discovered(p, r) ==
  /\ dCalls' = [dCalls EXCEPT ![p] =
       IF r.threw
       THEN [@ EXCEPT !.pc = "done", !.result = Outcome(TRUE, r.error, NoUrl, "")]
       ELSE IF UsesAuthorizationServer(dImpl, @.op)
       THEN [@ EXCEPT !.pc = "resolved", !.mine = r.as]
       ELSE [@ EXCEPT !.pc = "fetch", !.mine = r.as,
                      !.result = Outcome(FALSE, TypeError(Text("")), NoUrl,
                                         r.as.userinfo_endpoint)]]
  /\ dAs' = IF ~r.threw /\ UsesAuthorizationServer(dImpl, dCalls[p].op)
            THEN r.as ELSE dAs
  /\ dSucceeded' = (dSucceeded \/ ~r.threw)

\* The issuer answers the call's discovery request.
DiscoveryResponse(p, outcome) ==
  /\ dCalls[p].pc = "discovery"
  /\ Discovered(p, getAuthorizationServer(outcome))
  /\ UNCHANGED << dImpl, dRequests, dLate, dStarted >>
  /\ UNCHANGED notDiscoveryVars

\* What validateAuthResponse decided, then the grant request to the
\* document's token endpoint.
oidc_callbackValidated(params, as, url, codeVerifier) ==
  IF params.threw THEN params
  ELSE authorizationCodeGrantRequest(as.token_endpoint, oidcConfig.clientId,
         oidcConfig.clientSecret, url, oidcConfig.redirectUri, codeVerifier)

\* _callback from the document on, up to its fetch.
oidc_callback(as, url, codeVerifier, state) ==
  oidc_callbackValidated(validateAuthResponse(url, state), as, url, codeVerifier)

\* _callback has run up to its fetch: it throws, or the request r.value is
\* on its way.
CallbackResumed(call, r) ==
  IF r.threw
  THEN [call EXCEPT !.pc = "done", !.result = Outcome(TRUE, r.error, NoUrl, "")]
  ELSE [call EXCEPT !.pc = "fetch",
                    !.result = Outcome(FALSE, TypeError(Text("")), NoUrl,
                                       r.value.url)]

\* The operation resumes with what authorizationServer() returned:
\* _authorization assigns it to `as` where the provider does so and builds
\* the URL or throws; _callback and _user send their request.
Resume(p) ==
  /\ dCalls[p].pc = "resolved"
  /\ dAs' = IF dCalls[p].op = "_authorization" /\ AssignsAgain(dImpl)
            THEN dCalls[p].mine ELSE dAs
  /\ dCalls' = [dCalls EXCEPT ![p] =
       CASE @.op = "_authorization" ->
              [@ EXCEPT !.pc = "done",
                        !.result = oidc_authorization(dImpl, dCalls[p].mine, oidcState,
                                                      dCalls[p].codeVerifier)]
         [] @.op = "_callback" ->
              CallbackResumed(@, oidc_callback(dCalls[p].mine, dCalls[p].url,
                                               dCalls[p].codeVerifier,
                                               JStr(oidcState)))
         [] @.op = "_user" ->
              [@ EXCEPT !.pc = "fetch",
                        !.result = Outcome(FALSE, TypeError(Text("")), NoUrl,
                                           dCalls[p].mine.userinfo_endpoint)]]
  /\ UNCHANGED << dImpl, dRequests, dSucceeded, dLate, dStarted >>
  /\ UNCHANGED notDiscoveryVars

\* The operation's outcome once the library has read the response r.
Processed(p, r) ==
  dCalls' = [dCalls EXCEPT ![p] =
    [@ EXCEPT !.pc = "done",
              !.result = Outcome(r.threw, r.error, NoUrl, dCalls[p].result.endpoint)]]

\* The token or the userinfo endpoint answers, and the operation returns
\* or throws.
EndpointResponse(p, status) ==
  /\ dCalls[p].pc = "fetch"
  /\ Processed(p, IF dCalls[p].op = "_callback"
                  THEN processAuthorizationCodeResponse(status)
                  ELSE processUserInfoResponse(status))
  /\ UNCHANGED << dImpl, dAs, dRequests, dSucceeded, dLate, dStarted >>
  /\ UNCHANGED notDiscoveryVars

\* The caller has taken the outcome.
Settle(p) ==
  /\ dCalls[p].pc = "done"
  /\ dCalls' = [dCalls EXCEPT ![p] = NoCall]
  /\ UNCHANGED << dImpl, dAs, dRequests, dSucceeded, dLate, dStarted >>
  /\ UNCHANGED notDiscoveryVars

DiscoveryNext ==
  \/ \E impl \in DiscoveringProviders : CreateProvider(impl)
  \/ \E p \in Calls, op \in ProviderOps :
       \E codeVerifier \in VerifiersFor(op), url \in UrlsFor(op) :
         ProviderCall(p, op, codeVerifier, url)
  \/ \E p \in Calls, outcome \in DiscoveryOutcomes : DiscoveryResponse(p, outcome)
  \/ \E p \in Calls : Resume(p)
  \/ \E p \in Calls, status \in Statuses : EndpointResponse(p, status)
  \/ \E p \in Calls : Settle(p)

DiscoverySpec == Init /\ [][DiscoveryNext]_vars

(***************************************************************************)
(* Concurrent invocations of authorize and callback: each has its own      *)
(* local variables, and each await is a step.                              *)
(***************************************************************************)

\* The decryptedState of whichever invocation has one, if that constant
\* were one variable of the module.
decryptedStateShared(i) ==
  nInv[CHOOSE j \in Slots :
         /\ nInv[j].decryptedState # JNull
         /\ \A k \in Slots : nInv[k].decryptedState # JNull => j <= k].decryptedState

\* The decryptedState that invocation i reads: its own constant.
decryptedState(i) == nInv[i].decryptedState

\* Invocation i begins in the first free slot.
Begins(i) ==
  /\ nInv[i].pc = "idle"
  /\ \A j \in 1..(i - 1) : nInv[j].pc # "idle"

\* authorize(id, data) is called: it looks the provider up, draws the state,
\* and encrypt draws its nonce; it awaits encrypt.
StartAuthorize(i, id, data) ==
  /\ Begins(i)
  /\ nStates < MaxAuthorize
  /\ nInv' = [nInv EXCEPT ![i] =
       IF id \notin DOMAIN providerMap
       THEN [NoInvocation EXCEPT !.pc = "done", !.op = "authorize", !.id = id,
                                 !.data = data,
                                 !.result = Threw(ProviderNotFoundError(id))]
       ELSE [NoInvocation EXCEPT
               !.pc = "encrypt", !.op = "authorize", !.id = id, !.data = data,
               !.state = generateRandomState(nStates + 1),
               !.iv = Nonce(nStates + 1),
               !.encryptedWithState =
                  encrypt(secret,
                          SpreadOver(kState, JStr(generateRandomState(nStates + 1)), data),
                          Nonce(nStates + 1))]]
  /\ nStates' = nStates + 1
  /\ UNCHANGED << nIssued, nVerifiers >>
  /\ UNCHANGED notConcurrentVars

\* An authorize that hands out one code verifier, drawn once, to every
\* call.
AuthorizeVerifierOnce(i) ==
  /\ nInv[i].pc = "encrypt"
  /\ nInv' = [nInv EXCEPT ![i].pc = "_authorization",
                          ![i].codeVerifier = generateRandomCodeVerifier(1)]
  /\ nVerifiers' = nVerifiers + 1
  /\ UNCHANGED << nIssued, nStates >>
  /\ UNCHANGED notConcurrentVars

\* authorize resumes, draws the code verifier and calls
\* provider._authorization, which it awaits.
AuthorizeVerifier(i) ==
  /\ nInv[i].pc = "encrypt"
  /\ nInv' = [nInv EXCEPT ![i].pc = "_authorization",
                          ![i].codeVerifier = generateRandomCodeVerifier(nVerifiers + 1)]
  /\ nVerifiers' = nVerifiers + 1
  /\ UNCHANGED << nIssued, nStates >>
  /\ UNCHANGED notConcurrentVars

\* Invocation i ran up to r.
Ran(i, r) ==
  nInv' = [nInv EXCEPT ![i].pc = r.pc, ![i].result = r.result,
                       ![i].calls = r.calls]

\* authorize resumes with the URL and returns.
AuthorizeReturn(i) ==
  /\ nInv[i].pc = "_authorization"
  /\ Ran(i, authorizeReturn(providerMap[nInv[i].id],
                            provider_authorization(providerMap[nInv[i].id],
                                                   nInv[i].state,
                                                   nInv[i].codeVerifier),
                            nInv[i].encryptedWithState, nInv[i].codeVerifier))
  /\ nIssued' = nIssued \cup {nInv[i].encryptedWithState}
  /\ UNCHANGED << nStates, nVerifiers >>
  /\ UNCHANGED notConcurrentVars

\* Invocation i of callback ran up to r, having unsealed r.decryptedState.
Opened(i, id, text, r) ==
  nInv' = [nInv EXCEPT ![i] =
    [NoInvocation EXCEPT !.pc = r.pc, !.op = "callback", !.id = id,
                         !.encryptedWithState = text,
                         !.decryptedState = r.decryptedState,
                         !.result = r.result, !.calls = r.calls]]

\* callback(id, { url, codeVerifier, state }) is called with a sealed state
\* and runs up to its call of provider._callback.
StartCallback(i, id, text) ==
  /\ Begins(i)
  /\ Opened(i, id, text, callback(id, text))
  /\ UNCHANGED << nIssued, nStates, nVerifiers >>
  /\ UNCHANGED notConcurrentVars

\* callback calls provider._callback with options.url.
ConcurrentProviderCallback(i, url) ==
  /\ nInv[i].pc = "provider"
  /\ Ran(i, callbackProvider(nInv[i].id, nInv[i].calls, decryptedState(i),
                             url, oidcCodeVerifier))
  /\ UNCHANGED << nIssued, nStates, nVerifiers >>
  /\ UNCHANGED notConcurrentVars

\* Invocation i ran up to r after the response of that endpoint, and keeps
\* the value it got if it goes on.
Answered(i, from, status, r) ==
  nInv' = [nInv EXCEPT
    ![i].pc = r.pc,
    ![i].calls = r.calls,
    ![i].answers = Append(@, Answer(from, status)),
    ![i].result = IF r.pc = "done" THEN r.result ELSE @,
    ![i].token = IF r.pc # "done" /\ from = "token" THEN r.result.value ELSE @,
    ![i].user = IF r.pc # "done" /\ from = "user" THEN r.result.value ELSE @]

\* The token endpoint answers invocation i.
ConcurrentTokenResponse(i, status) ==
  /\ nInv[i].pc = "token"
  /\ Answered(i, "token", status,
              callbackToken(nInv[i].id, nInv[i].calls, decryptedState(i), status))
  /\ UNCHANGED << nIssued, nStates, nVerifiers >>
  /\ UNCHANGED notConcurrentVars

\* The profile endpoint answers invocation i.
ConcurrentUserResponse(i, status) ==
  /\ nInv[i].pc = "user"
  /\ Answered(i, "user", status,
              callbackUser(nInv[i].id, nInv[i].calls, decryptedState(i),
                           nInv[i].token, status))
  /\ UNCHANGED << nIssued, nStates, nVerifiers >>
  /\ UNCHANGED notConcurrentVars

\* The emails endpoint answers invocation i.
ConcurrentEmailsResponse(i, status) ==
  /\ nInv[i].pc = "emails"
  /\ Answered(i, "emails", status,
              callbackEmails(nInv[i].id, nInv[i].calls, decryptedState(i),
                             nInv[i].token, nInv[i].user, status))
  /\ UNCHANGED << nIssued, nStates, nVerifiers >>
  /\ UNCHANGED notConcurrentVars

\* The caller of invocation i has taken its outcome.
Taken(i) ==
  /\ nInv[i].pc = "done"
  /\ nInv' = [nInv EXCEPT ![i] = NoInvocation]
  /\ UNCHANGED << nIssued, nStates, nVerifiers >>
  /\ UNCHANGED notConcurrentVars

\* The callback URL that the provider redirects to for a sealed state: it
\* carries a code and the state of the mapping.
RedirectUrl(opened) ==
  [endpoint |-> "https://app/callback",
   query |-> << << kCode, Str(<< "c", "1" >>) >>,
                << kState, Get(opened, kState).v >> >>]

ConcurrentNext ==
  \/ \E i \in Slots, id \in ConcurrentIds, data \in ConcurrentData :
       StartAuthorize(i, id, data)
  \/ \E i \in Slots : AuthorizeVerifier(i)
  \/ \E i \in Slots : AuthorizeReturn(i)
  \/ \E i \in Slots, id \in ConcurrentIds, text \in nIssued : StartCallback(i, id, text)
  \/ \E i \in Slots :
       ConcurrentProviderCallback(i, RedirectUrl(nInv[i].decryptedState))
  \/ \E i \in Slots, status \in Statuses : ConcurrentTokenResponse(i, status)
  \/ \E i \in Slots, status \in Statuses : ConcurrentUserResponse(i, status)
  \/ \E i \in Slots, status \in Statuses : ConcurrentEmailsResponse(i, status)
  \/ \E i \in Slots : Taken(i)

ConcurrentSpec == Init /\ [][ConcurrentNext]_vars

(***************************************************************************)
(* example/server.ts: the two routes of the example server, one request    *)
(* at a time, and what the browser does to the two cookies in between.     *)
(***************************************************************************)

\* The :provider parameters of the requests: one that the registry has and
\* one that it has not.
ServerProviders == {"github", "acme"}

\* The data the authorize route passes (a shorter name and value).
serverData == JObj(<< << kTag, JStr(Str(<< "x" >>)) >> >>)

\* The route has responded.
Responded(status) ==
  /\ vPc' = "responded"
  /\ vResponse' = status

\* The authorize route got r from auth.authorize: it sets the two cookies
\* and redirects, or the handler throws and the server answers 500.
AuthorizeRouteEnded(r) ==
  /\ Responded(IF r.threw THEN 500 ELSE 302)
  /\ vCookies' = IF r.threw THEN vCookies
                 ELSE Cookies(Cookie(r.value.state), Cookie(r.value.codeVerifier))

\* GET /api/v1/auth/:provider
AuthorizeRoute(provider) ==
  /\ vPc = "idle"
  /\ vDrawn < MaxAuthorize
  /\ AuthorizeRouteEnded(authorize(provider, serverData,
                                   generateRandomState(vDrawn + 1), Nonce(vDrawn + 1),
                                   generateRandomCodeVerifier(vDrawn + 1)).result)
  /\ vDrawn' = vDrawn + 1
  /\ vRoute' = "authorize"
  /\ vProvider' = provider
  /\ UNCHANGED << vReq, vCalled >>
  /\ UNCHANGED notServerVars

\* !value for what cookies.get returned: null or the empty string.
NoValue(cookie) == ~cookie.set \/ Len(cookie.value) = 0

\* A callback route that deletes the cookies before it calls auth.callback.
CallbackRouteDeletingFirst(provider) ==
  /\ vPc = "idle"
  /\ vRoute' = "callback"
  /\ vProvider' = provider
  /\ vReq' = vCookies
  /\ IF NoValue(vCookies.state) \/ NoValue(vCookies.codeVerifier)
     THEN Responded(400) /\ UNCHANGED << vCalled, vCookies >>
     ELSE /\ vPc' = "callback"
          /\ vCalled' = TRUE
          /\ vCookies' = Cookies(NoCookie, NoCookie)
          /\ UNCHANGED vResponse
  /\ UNCHANGED vDrawn
  /\ UNCHANGED notServerVars

\* GET /api/v1/auth/:provider/callback up to its await: it reads the two
\* cookies and answers 400, or calls auth.callback.
CallbackRoute(provider) ==
  /\ vPc = "idle"
  /\ vRoute' = "callback"
  /\ vProvider' = provider
  /\ vReq' = vCookies
  /\ IF NoValue(vCookies.state) \/ NoValue(vCookies.codeVerifier)
     THEN Responded(400) /\ UNCHANGED vCalled
     ELSE /\ vPc' = "callback"
          /\ vCalled' = TRUE
          /\ UNCHANGED vResponse
  /\ UNCHANGED << vCookies, vDrawn >>
  /\ UNCHANGED notServerVars

\* Whether auth.callback throws before it calls the provider.
CallbackThrowsAtOnce(r) == r.pc = "done"

\* auth.callback has returned or thrown: the route deletes both cookies and
\* answers with the user and the data, or the handler throws and the
\* server answers 500.
CallbackRouteEnded(threw) ==
  /\ Responded(IF threw THEN 500 ELSE 200)
  /\ vCookies' = IF threw THEN vCookies ELSE Cookies(NoCookie, NoCookie)

\* The route resumes after auth.callback: callback throws at once where
\* its own checks fail, and otherwise the provider and its endpoints decide
\* (ok).
CallbackRouteResumes(ok) ==
  /\ vPc = "callback"
  /\ CallbackRouteEnded(~ok \/ CallbackThrowsAtOnce(callback(vProvider, vReq.state.value)))
  /\ UNCHANGED << vRoute, vProvider, vReq, vCalled, vDrawn >>
  /\ UNCHANGED notServerVars

\* The browser has the response; the next request starts afresh.
ResponseTaken ==
  /\ vPc = "responded"
  /\ vPc' = "idle"
  /\ vRoute' = "none"
  /\ vProvider' = ""
  /\ vReq' = Cookies(NoCookie, NoCookie)
  /\ vCalled' = FALSE
  /\ vResponse' = 0
  /\ UNCHANGED << vCookies, vDrawn >>
  /\ UNCHANGED notServerVars

\* Between two requests a cookie expires (they are set for ten minutes) or
\* is cleared.
CookieExpires(name) ==
  /\ vPc = "idle"
  /\ vCookies[name].set
  /\ vCookies' = [vCookies EXCEPT ![name] = NoCookie]
  /\ UNCHANGED << vPc, vRoute, vProvider, vReq, vCalled, vResponse, vDrawn >>
  /\ UNCHANGED notServerVars

\* The values a client can put into a cookie itself: the empty one and one
\* the server never set.
ForgedCookieValues == {<< >>, Str(<< "z", "z" >>)}

\* Between two requests the client sets a cookie itself.
CookieForged(name, value) ==
  /\ vPc = "idle"
  /\ vCookies[name] # Cookie(value)
  /\ vCookies' = [vCookies EXCEPT ![name] = Cookie(value)]
  /\ UNCHANGED << vPc, vRoute, vProvider, vReq, vCalled, vResponse, vDrawn >>
  /\ UNCHANGED notServerVars

ServerNext ==
  \/ \E provider \in ServerProviders : AuthorizeRoute(provider)
  \/ \E provider \in ServerProviders : CallbackRoute(provider)
  \/ \E ok \in BOOLEAN : CallbackRouteResumes(ok)
  \/ ResponseTaken
  \/ \E name \in {"state", "codeVerifier"} : CookieExpires(name)
  \/ \E name \in {"state", "codeVerifier"}, value \in ForgedCookieValues :
       CookieForged(name, value)

ServerSpec == Init /\ [][ServerNext]_vars

(***************************************************************************)
(* Properties of the codec.                                                *)
(***************************************************************************)

\* decrypt was called under the sealing key on what encrypt returned.
OpenedIntact == cPc = "opened" /\ cEdit = "none" /\ cDecKey = cKey

\* decrypt was called under the sealing key on an edited sealed string.
OpenedEdited ==
  cPc = "opened" /\ cEdit \in {"change", "append", "truncate"} /\ cDecKey = cKey

\* C1: decrypt(S, encrypt(S, M)) is a mapping equal to M and never false,
\* for every secret S and mapping M, also after the result was sealed and
\* unsealed again any number of times.
C1_RoundTrip ==
  (OpenedIntact /\ cData.t = "obj")
    => (cOut # JFalse /\ SameMapping(cOut, cData))

\* C1 happens: a mapping with escaped and non-ASCII characters came back
\* after the last of the repeated round trips.
C1_Witness ==
  /\ OpenedIntact
  /\ cRounds = MaxRounds
  /\ cData.t = "obj"
  /\ Len(cData.v) > 0
  /\ \E i \in 1..Len(cData.v) :
       cData.v[i][2].t = "str" /\ Ord("\\") \in {cData.v[i][2].v[j] : j \in 1..Len(cData.v[i][2].v)}
  /\ cOut = cData

\* C2: a sealed mapping in which one character was changed, to which
\* characters were appended or from which characters were cut off makes
\* decrypt, under the sealing secret, return false.
C2_TamperRejected == (OpenedEdited /\ cData.t = "obj") => cOut = JFalse

\* The edit left the bytes that the sealed string decodes to as they were:
\* a hex digit was replaced by the same digit in the other case.
SameBytes == Len(cText) = Len(cSealed) /\ HexDecode(cText) = HexDecode(cSealed)

\* What remains of C2 in the code: every edit that changes the decoded
\* bytes is rejected, and an edit that does not is accepted.
TamperRejectedUnlessSameBytes ==
  (OpenedEdited /\ cData.t = "obj")
    => IF SameBytes THEN SameMapping(cOut, cData) ELSE cOut = JFalse

\* C3: decrypt(S2, encrypt(S1, M)) is false for all secrets S1 # S2.
C3_WrongKeyRejected ==
  (cPc = "opened" /\ cEdit = "none" /\ cText # << >> /\ cDecKey # cKey)
    => cOut = JFalse

\* C3 happens: a sealed mapping was decrypted under another secret.
C3_Witness ==
  /\ cPc = "opened" /\ cEdit = "none" /\ cDecKey # cKey
  /\ cData.t = "obj" /\ Len(cData.v) > 0
  /\ cText = cSealed
  /\ cOut = JFalse

\* C4: two calls of encrypt(S, M) that drew different nonces return
\* different strings, and decrypt(S, .) of either one returns M.
C4_NonceFreshness ==
  /\ (cPrev # << >> /\ cIv # cPrevIv) => cSealed # cPrev
  /\ (OpenedIntact /\ cPrev # << >> /\ cData.t = "obj")
       => (cText \in {cSealed, cPrev} /\ SameMapping(cOut, cData))

\* C4 happens: the string of the first of two calls with different nonces
\* was decrypted.
C4_Witness ==
  /\ OpenedIntact
  /\ cPrev # << >> /\ cIv # cPrevIv
  /\ cText = cPrev /\ cText # cSealed
  /\ cData.t = "obj" /\ Len(cData.v) > 0
  /\ cOut = cData

\* C5: decrypt returns, for every key and every string, either false or a
\* complete mapping (it never throws), and false for every string shorter
\* than the minimum length.
C5_DecryptTotal ==
  cPc = "opened"
    => /\ cOut = JFalse \/ cOut.t = "obj"
       /\ Len(cText) < minLength => cOut = JFalse

\* The part of C5 that does not rest on the kind of the plaintext.
ShortInputRejected ==
  (cPc = "opened" /\ Len(cText) < minLength) => cOut = JFalse

\* C6: decrypt returns false for a sealed string whose plaintext is valid
\* JSON of another kind than a mapping.
C6_NonMappingRejected ==
  (OpenedIntact /\ cData.t # "obj") => cOut = JFalse

\* What the code does instead: it returns the value it parsed.
NonMappingReturned == (OpenedIntact /\ cData.t # "obj") => cOut = cData

(***************************************************************************)
(* Properties of authorize and callback.                                   *)
(***************************************************************************)

\* The id passed to the invocation is one of a configured provider.
Registered == oId \in DOMAIN providerMap

\* The invocation has called provider._callback or provider._user.
ProviderCalled ==
  \E i \in 1..Len(oCalls) : oCalls[i].op \in {"_callback", "_user"}

\* The invocation has sent a request to an endpoint.
Fetched == \E i \in 1..Len(oCalls) : oCalls[i].op = "fetch"

\* The value is a mapping with a string-valued state property.
HasStringState(x) ==
  x.t = "obj" /\ In(kState, x) /\ Get(x, kState).t = "str"

\* The invocation threw an AuthingyError with this code.
ThrewCode(code) ==
  /\ oPc = "done"
  /\ oResult.threw
  /\ oResult.error.name = "AuthingyError"
  /\ oResult.error.code = Text(code)

\* The callback URL has been read, and its state parameter is not the
\* state property of the unsealed mapping.
UrlStateDiffers ==
  /\ oOp = "callback"
  /\ oPc \in {"token", "user", "emails", "done"}
  /\ Registered
  /\ HasStringState(oOpened)
  /\ oArgs.url # NoUrl
  /\ SearchParamsGet(oArgs.url.query, kState) # Get(oOpened, kState)

\* The provider of the invocation is one that reads the callback URL with
\* its own code: X or Discord.
OwnCallbackChecks == providerMap[oId].impl \in {"x", "discord"}

\* C7: callback calls provider._callback and provider._user only after
\* decrypt(secret, options.state) returned a mapping with a string state
\* property, which it does only for a state sealed under the process secret
\* and not edited; in every other case callback throws and calls no
\* provider operation.
C7_ProviderOnlyAfterUnseal ==
  oOp = "callback"
    => /\ ProviderCalled
            => /\ oArgs.kind \in {"issued", "app"}
               /\ HasStringState(oOpened)
               /\ oCalls[1].op = "decrypt"
       /\ (oArgs.kind \in {"tampered", "foreign", "raw"}
             \/ ~HasStringState(oOpened))
            => (oPc = "done" /\ oResult.threw /\ ~ProviderCalled)

\* C7 happens: a callback with the state that authorize returned called
\* both provider operations and returned.
C7_Witness ==
  /\ oOp = "callback" /\ oPc = "done" /\ ~oResult.threw
  /\ oArgs.kind = "issued"
  /\ \E i \in 1..Len(oCalls) : oCalls[i].op = "_callback"
  /\ \E i \in 1..Len(oCalls) : oCalls[i].op = "_user"

\* C8: authorize and callback with an id that is not registered throw an
\* AuthingyError whose code is PROVIDER_NOT_FOUND and call nothing.
C8_ProviderNotFound ==
  (oOp \in {"authorize", "callback"} /\ ~Registered)
    => (ThrewCode("PROVIDER_NOT_FOUND") /\ oCalls = << >>)

\* What the code does: it throws an AuthingyError and calls nothing, and
\* the code of the error is the text of the message.
UnregisteredThrows ==
  (oOp \in {"authorize", "callback"} /\ ~Registered)
    => /\ oPc = "done" /\ oResult.threw /\ oCalls = << >>
       /\ oResult.error = ProviderNotFoundError(oId)
       /\ oResult.error.code \notin AuthingyErrorCode

\* C9: callback throws an AuthingyError whose code is INVALID_STATE whenever
\* decrypt fails and whenever what it returns has no string-valued state
\* property.
C9_InvalidState ==
  (oOp = "callback" /\ Registered /\ ~HasStringState(oOpened))
    => ThrewCode("INVALID_STATE")

\* What the code does: the code of the error is the text 'Invalid state',
\* and a number or a string that is not falsy makes the in operator throw.
InvalidStateThrows ==
  (oOp = "callback" /\ Registered /\ ~HasStringState(oOpened))
    => /\ oPc = "done" /\ oResult.threw /\ ~ProviderCalled
       /\ oResult.error = IF ~Falsy(oOpened) /\ InThrows(oOpened)
                          THEN InOperatorError ELSE InvalidStateError

\* C10: callback throws the state-mismatch error (code INVALID_STATE,
\* 'State mismatch in callback') whenever the state parameter of the URL is
\* not the state of the sealed mapping, whatever else the URL contains.
C10_StateMismatch ==
  UrlStateDiffers
    => (ThrewCode("INVALID_STATE")
          /\ oResult.error.message = Text("State mismatch in callback"))

\* C10 as the X and Discord providers have it: when the URL carries a
\* non-empty code, callback throws the state-mismatch error whenever the
\* state parameter of the URL is absent or is not the state of the sealed
\* mapping, and no request is sent to the token endpoint.
C10_StateMismatchWithCode ==
  (UrlStateDiffers /\ OwnCallbackChecks
     /\ ~Falsy(SearchParamsGet(oArgs.url.query, kCode)))
    => /\ ThrewCode("INVALID_STATE")
       /\ oResult.error.message = Text("State mismatch in callback")
       /\ ~Fetched

\* C10 happens: a callback with the state that authorize returned and a URL
\* with a code, another state and a further parameter threw.
C10_Witness ==
  /\ UrlStateDiffers
  /\ oArgs.kind = "issued"
  /\ ~Falsy(SearchParamsGet(oArgs.url.query, kCode))
  /\ SearchParamsGet(oArgs.url.query, kState) # JNull
  /\ Len(oArgs.url.query) = 3
  /\ OwnCallbackChecks
  /\ ThrewCode("INVALID_STATE")

\* Without a code in the URL the missing-code check comes first.
MissingCodeFirst ==
  (UrlStateDiffers /\ OwnCallbackChecks
     /\ Falsy(SearchParamsGet(oArgs.url.query, kCode)))
    => ThrewCode("TOKEN_EXCHANGE_FAILED")

\* A callback with the sealed state of the latest authorize call returned.
CallbackReturned ==
  oOp = "callback" /\ oPc = "done" /\ ~oResult.threw /\ oArgs.kind = "issued"

\* C11: a callback that succeeds with the sealed state that authorize(id, D)
\* returned returns data equal to D, whatever keys D has.
C11_DataRoundTrip ==
  CallbackReturned => SameMapping(oResult.value.data, issued.data)

\* What the code does: D comes back when it has no property named state,
\* and without that property when it has one.
DataRoundTripWithoutState ==
  CallbackReturned
    => SameMapping(oResult.value.data, RestWithout(kState, issued.data))

\* authorize returned a sealed state and a URL.
AuthorizeReturned == oOp = "authorize" /\ oPc = "done" /\ ~oResult.threw

\* The sealed state that authorize returned unseals, under the process
\* secret, to a mapping whose state is the state parameter of the URL.
SealedStateIsUrlState(opened) ==
  /\ HasStringState(opened)
  /\ Get(opened, kState) = SearchParamsGet(oResult.value.url.query, kState)

\* C12: after every successful authorize(id, D) the returned sealed state
\* unseals to a mapping whose state equals the state parameter of the
\* returned URL, and that parameter is the generated value, not the sealed
\* string.
C12_SealedMatchesUrl ==
  AuthorizeReturned
    => /\ SealedStateIsUrlState(decrypt(secret, oResult.value.state))
       /\ SearchParamsGet(oResult.value.url.query, kState) = JStr(issued.csrf)
       /\ issued.csrf # oResult.value.state

\* What the code does: the URL always carries the generated value, and the
\* sealed mapping carries it unless D has a property named state.
SealedMatchesUrlWithoutState ==
  AuthorizeReturned
    => /\ SearchParamsGet(oResult.value.url.query, kState) = JStr(issued.csrf)
       /\ issued.csrf # oResult.value.state
       /\ In(kState, oArgs.data)
            \/ SealedStateIsUrlState(decrypt(secret, oResult.value.state))
       /\ In(kState, oArgs.data)
            => Get(decrypt(secret, oResult.value.state), kState)
                 = Get(oArgs.data, kState)

\* The invocation got a response of that endpoint with a non-success
\* status.
Refused(from) ==
  /\ oOp = "callback"
  /\ \E i \in 1..Len(oAnswers) :
       oAnswers[i].from = from /\ ~ResponseOk(oAnswers[i].status)

\* The status of the response of that endpoint.
StatusOf(from) ==
  oAnswers[CHOOSE i \in 1..Len(oAnswers) : oAnswers[i].from = from].status

\* The invocation has called provider._user.
UserCalled == \E i \in 1..Len(oCalls) : oCalls[i].op = "_user"

\* C15: for every provider, a non-success status of the token endpoint
\* makes callback throw an AuthingyError with code TOKEN_EXCHANGE_FAILED
\* whose details carry the status and the body, and provider._user is not
\* called.
C15_TokenExchangeFailed ==
  Refused("token")
    => /\ ThrewCode("TOKEN_EXCHANGE_FAILED")
       /\ oResult.error.details = << StatusOf("token"), ErrorBody >>
       /\ ~UserCalled

\* What the code does: X and Discord throw that error; with github the
\* library's error comes out of callback; provider._user is never called.
TokenRefusedThrows ==
  Refused("token")
    => /\ oPc = "done" /\ oResult.threw /\ ~UserCalled
       /\ IF OwnCallbackChecks
          THEN /\ ThrewCode("TOKEN_EXCHANGE_FAILED")
               /\ oResult.error.details = << StatusOf("token"), ErrorBody >>
          ELSE oResult.error.name = "OperationProcessingError"

\* C16: for every provider, a non-success status of the profile endpoint
\* makes callback throw an AuthingyError with code USER_FETCH_FAILED whose
\* details carry the status, and callback returns no result.
C16_UserFetchFailed ==
  Refused("user")
    => /\ ThrewCode("USER_FETCH_FAILED")
       /\ oResult.error.details = << StatusOf("user") >>

\* What the code does: X and Discord throw that error; github throws an
\* AuthingyError whose code is the text of its message and which has no
\* details.
UserRefusedThrows ==
  Refused("user")
    => /\ oPc = "done" /\ oResult.threw
       /\ oResult.error.name = "AuthingyError"
       /\ IF OwnCallbackChecks
          THEN /\ oResult.error.code = Text("USER_FETCH_FAILED")
               /\ oResult.error.details = << StatusOf("user") >>
          ELSE /\ oResult.error.code = Text("Failed to fetch GitHub user profile")
               /\ oResult.error.details = NoDetails

\* The invocation threw.
Failed == oPc = "done" /\ oResult.threw

\* The error is an AuthingyError with one of the declared codes.
Typed(error) ==
  error.name = "AuthingyError" /\ error.code \in AuthingyErrorCode

\* C17: every failure of authorize and of callback is an AuthingyError with
\* a code of the taxonomy, for every provider and every failing step.
C17_TypedFailures == Failed => Typed(oResult.error)

\* What the code does: the errors that the code of X and of Discord throws
\* are typed; those of the unregistered id, of the unsealing and of github
\* and the library are not.
TypedWhereTyped ==
  Failed
    => Typed(oResult.error)
         = (Registered /\ HasStringState(oOpened) /\ OwnCallbackChecks)

\* A callback on a registered provider with a sealed state that the codec
\* must refuse: sealed under another secret, edited, too short, or with a
\* plaintext that is no serialized mapping.
UnsealFails ==
  /\ oOp = "callback"
  /\ Registered
  /\ \/ oArgs.kind \in {"foreign", "tampered", "raw", "malformed"}
     \/ oOpened.t # "obj"

\* C21: every callback whose sealed state fails to unseal (wrong secret,
\* tampered, too short, malformed plaintext) throws one and the same error,
\* with the same code, the same message and no details.
C21_UnsealFailuresAlike ==
  UnsealFails => (oPc = "done" /\ oResult = Threw(InvalidStateError))

\* What the code does: whenever decrypt returns false the error is the same
\* one and nothing but decrypt was called; a sealed number or string that is
\* not falsy makes callback throw a TypeError instead.
UnsealFailuresAlikeWhenFalse ==
  (UnsealFails /\ oOpened = JFalse)
    => /\ oPc = "done"
       /\ oResult = Threw(InvalidStateError)
       /\ oCalls = << Call("decrypt", "authingy", NoRequest) >>

\* The four kinds of refused sealed states all make decrypt return false.
RefusedKindsReturnFalse ==
  (oOp = "callback" /\ Registered
     /\ oArgs.kind \in {"foreign", "tampered", "raw", "malformed"})
    => oOpened = JFalse

\* The operations an invocation called, in order.
OpsOf(calls) == [i \in 1..Len(calls) |-> calls[i].op]

\* The order of a callback's steps once the provider is resolved: unseal,
\* the provider's code exchange and its request, the provider's user fetch
\* and its request or requests.
StepOrder ==
  << "decrypt", "_callback", "fetch", "_user", "fetch", "fetch" >>

\* The invocation got a success response of that endpoint.
Granted(from) ==
  \E i \in 1..Len(oAnswers) :
    oAnswers[i].from = from /\ ResponseOk(oAnswers[i].status)

\* Every step of the callback has succeeded.
AllStepsSucceeded ==
  /\ Registered
  /\ HasStringState(oOpened)
  /\ Granted("token") /\ oToken # JNull
  /\ Granted("user")
  /\ Len(oCalls) >= 5

\* C22: a callback takes its steps in the order provider resolution, unseal,
\* code exchange, user fetch; it returns { user, token, data } only after all
\* of them succeeded, a failure of any step ends it with a throw and no
\* result, and provider._user is called only after provider._callback has
\* returned a token.
C22_AttemptStateMachine ==
  oOp = "callback"
    => /\ Len(oCalls) <= Len(StepOrder)
       /\ OpsOf(oCalls) = SubSeq(StepOrder, 1, Len(oCalls))
       /\ oCalls # << >> => Registered
       /\ ProviderCalled => HasStringState(oOpened)
       /\ UserCalled => (Granted("token") /\ oToken # JNull)
       /\ (~Registered \/ ~HasStringState(oOpened)
             \/ Refused("token") \/ Refused("user")) => Failed
       /\ oPc = "done" => (oResult.threw = ~AllStepsSucceeded)
       /\ (oPc = "done" /\ ~oResult.threw)
            => /\ oResult.value.token = oToken
               /\ DOMAIN oResult.value = {"user", "token", "data"}

\* C22 happens: a github callback took all its steps, the request for the
\* emails included, and returned.
C22_Witness ==
  /\ oOp = "callback" /\ oPc = "done" /\ ~oResult.threw
  /\ oId = "github"
  /\ OpsOf(oCalls) = StepOrder
  /\ AllStepsSucceeded

\* The positions of the requests in what the invocation called.
Fetches == {i \in 1..Len(oCalls) : oCalls[i].op = "fetch"}

\* The invocation awaits the response to a request.
Awaiting == oPc \in {"token", "user", "emails"}

\* C23: a callback sends at most one request to each endpoint, sends a
\* request only after every earlier one was answered, and when the token
\* or the profile endpoint refuses a request it throws at once, without
\* sending that or any other request again.
C23_NoRetries ==
  oOp = "callback"
    => /\ \A i, j \in Fetches :
            oCalls[i].req.url = oCalls[j].req.url => i = j
       /\ Cardinality(Fetches) = Len(oAnswers) + (IF Awaiting THEN 1 ELSE 0)
       /\ \A from \in {"token", "user"} :
            Refused(from)
              => /\ Failed
                 /\ oAnswers[Len(oAnswers)].from = from
                 /\ ~ResponseOk(oAnswers[Len(oAnswers)].status)

\* C23 happens: the token endpoint refused the one request of a callback,
\* which threw.
C23_Witness ==
  /\ Refused("token")
  /\ Failed
  /\ Cardinality(Fetches) = 1
  /\ oCalls[Len(oCalls)].req.method = "POST"

\* The callback URL has been read and carries no code parameter.
NoCodeInUrl ==
  /\ oOp = "callback"
  /\ oArgs.url # NoUrl
  /\ SearchParamsGet(oArgs.url.query, kCode) = JNull

\* C25: when the callback URL carries no authorization code, callback
\* throws an AuthingyError of a kind of its own, which is neither the
\* token-exchange failure nor the state mismatch, and no request is sent to
\* the token endpoint.
C25_MissingCode ==
  NoCodeInUrl
    => /\ Failed
       /\ oResult.error.name = "AuthingyError"
       /\ oResult.error.code
            \notin {Text("TOKEN_EXCHANGE_FAILED"), Text("INVALID_STATE")}
       /\ ~Fetched

\* What the code does: no request is sent; X and Discord throw the error
\* with code TOKEN_EXCHANGE_FAILED and the message 'Missing authorization
\* code in callback', whatever the state parameter is; with github one
\* of the library's errors comes out.
MissingCodeThrows ==
  NoCodeInUrl
    => /\ Failed
       /\ ~Fetched
       /\ IF OwnCallbackChecks
          THEN /\ ThrewCode("TOKEN_EXCHANGE_FAILED")
               /\ oResult.error.message
                    = Text("Missing authorization code in callback")
               /\ oResult.error.details = NoDetails
          ELSE oResult.error.name
                 \in {"OperationProcessingError", "AuthorizationResponseError"}

\* A callback on a registered provider with the sealed state of the latest
\* authorize call, after a callback with that sealed state has returned.
Replayed ==
  /\ oOp = "callback"
  /\ Registered
  /\ oArgs.kind = "issued"
  /\ consumed

\* The callback URL has been read; it carries a code and the state of the
\* unsealed mapping.
UrlAnswersState ==
  /\ oArgs.url # NoUrl
  /\ ~Falsy(SearchParamsGet(oArgs.url.query, kCode))
  /\ SearchParamsGet(oArgs.url.query, kState) = Get(oOpened, kState)
  /\ SearchParamsGet(oArgs.url.query, kError) = JNull

\* C27: nothing records that a sealed state was used: a callback with a
\* sealed state with which an earlier callback has returned unseals it
\* again, and with a URL that carries a code and the same state it passes
\* the comparison and sends the token request.
C27_NoSingleUse ==
  Replayed
    => /\ HasStringState(oOpened)
       /\ oOpened = decrypt(secret, issued.state)
       /\ oCalls[1].op = "decrypt"
       /\ UrlAnswersState
            => /\ Fetched
               /\ oCalls[3].req.method = "POST"
               /\ << kCode, SearchParamsGet(oArgs.url.query, kCode).v >>
                    \in {oCalls[3].req.body[i] : i \in 1..Len(oCalls[3].req.body)}

\* C27 happens: a second callback with the same sealed state has sent its
\* token request, and one has returned.
C27_Witness ==
  /\ Replayed
  /\ UrlAnswersState
  /\ oPc = "done" /\ ~oResult.threw

\* C28: in the _callback of every provider, a callback URL whose state
\* parameter is not the expected state makes the invocation throw, and it
\* throws before any request to the token endpoint is sent.
C28_StateBeforeToken ==
  UrlStateDiffers => (oPc = "done" /\ oResult.threw /\ ~Fetched)

\* C28 happens: the URL carried a code and a state that authorize did not
\* seal, and discord._callback threw without a request.
C28_Witness ==
  /\ UrlStateDiffers
  /\ providerMap[oId].impl = "discord"
  /\ ~Falsy(SearchParamsGet(oArgs.url.query, kCode))
  /\ SearchParamsGet(oArgs.url.query, kError) = JNull
  /\ oPc = "done" /\ oResult.threw /\ ~Fetched
  /\ oCalls[Len(oCalls)].op = "_callback"

\* The first request of the invocation: the one provider._callback sent to
\* the token endpoint.
TokenRequest ==
  IF Fetches = {} THEN NoRequest ELSE oCalls[Min(Fetches)].req

\* The names of the body's parameters, in their order.
BodyNames(req) == [i \in 1..Len(req.body) |-> req.body[i][1]]

kClientId == Str(<< "c", "l", "i", "e", "n", "t", "_", "i", "d" >>)
kClientSecret == Str(<< "c", "l", "i", "e", "n", "t", "_", "s", "e", "c", "r", "e", "t" >>)
kAuthorization == Str(<< "A", "u", "t", "h", "o", "r", "i", "z", "a", "t", "i", "o", "n" >>)

\* The request is a POST of a form with the authorization-code grant: the
\* code of the callback URL, that redirect URI and the code verifier that
\* callback was called with.
CodeGrantForm(req, redirectUri) ==
  /\ req.method = "POST"
  /\ SearchParamsGet(req.headers, Str(<< "C", "o", "n", "t", "e", "n", "t", "-", "T", "y", "p", "e" >>))
       = JStr(Str(<< "a", "p", "p", "l", "i", "c", "a", "t", "i", "o", "n", "/", "x", "-", "w", "w", "w", "-", "f", "o", "r", "m", "-", "u", "r", "l", "e", "n", "c", "o", "d", "e", "d" >>))
  /\ SearchParamsGet(req.body, Str(<< "g", "r", "a", "n", "t", "_", "t", "y", "p", "e" >>))
       = JStr(Str(<< "a", "u", "t", "h", "o", "r", "i", "z", "a", "t", "i", "o", "n", "_", "c", "o", "d", "e" >>))
  /\ SearchParamsGet(req.body, kCode) = SearchParamsGet(oArgs.url.query, kCode)
  /\ SearchParamsGet(req.body, Str(<< "r", "e", "d", "i", "r", "e", "c", "t", "_", "u", "r", "i" >>))
       = JStr(redirectUri)
  /\ SearchParamsGet(req.body, Str(<< "c", "o", "d", "e", "_", "v", "e", "r", "i", "f", "i", "e", "r" >>))
       = JStr(oArgs.codeVerifier)
  /\ \A i, j \in 1..Len(req.body) : req.body[i][1] = req.body[j][1] => i = j

\* HTTP Basic: the Authorization header is "Basic " and the base64 text of
\* id:secret, and the body carries neither.
BasicAuthentication(req, config) ==
  /\ SearchParamsGet(req.headers, kAuthorization)
       = JStr(Str(<< "B", "a", "s", "i", "c", " " >>)
                \o Base64Encode(Utf8Encode(config.clientId \o << Ord(":") >>
                                            \o config.clientSecret)))
  /\ SearchParamsGet(req.body, kClientId) = JNull
  /\ SearchParamsGet(req.body, kClientSecret) = JNull

\* The credentials are parameters of the body, and there is no
\* Authorization header.
BodyAuthentication(req, config) ==
  /\ SearchParamsGet(req.body, kClientId) = JStr(config.clientId)
  /\ SearchParamsGet(req.body, kClientSecret) = JStr(config.clientSecret)
  /\ SearchParamsGet(req.headers, kAuthorization) = JNull

\* C29: the token request of X and of Discord is a POST with a form body
\* that has grant_type=authorization_code, the code of the callback URL, the
\* configured redirect URI and the code verifier as passed to callback; X
\* authenticates with HTTP Basic and has no credentials in the body,
\* Discord has client_id and client_secret in the body.
C29_TokenRequest ==
  (oOp = "callback" /\ Fetched)
    => /\ providerMap[oId].impl = "x"
            => /\ CodeGrantForm(TokenRequest, xConfig.redirectUri)
               /\ BasicAuthentication(TokenRequest, xConfig)
               /\ TokenRequest.url = "https://api.x.com/2/oauth2/token"
       /\ providerMap[oId].impl = "discord"
            => /\ CodeGrantForm(TokenRequest, discordConfig.redirectUri)
               /\ BodyAuthentication(TokenRequest, discordConfig)
               /\ TokenRequest.url = "https://discord.com/api/oauth2/token"

\* C29 happens: X sent its token request with a code verifier that is not
\* the one authorize returned.
C29_Witness ==
  /\ oOp = "callback" /\ Fetched
  /\ providerMap[oId].impl = "x"
  /\ oArgs.codeVerifier # issued.codeVerifier
  /\ BodyNames(TokenRequest)[2] = kCode

\* The data passed to the latest authorize call that returned has a
\* property named state.
StateInData == issued.some /\ In(kState, issued.data)

\* C31: when the data passed to authorize has a property named state, its
\* value is the state of the sealed mapping while the URL carries the
\* generated value; a callback with that sealed state gives the provider the
\* caller's value to compare the URL's state with, and the data it returns
\* has no property named state.
C31_CallerStateShadows ==
  /\ (AuthorizeReturned /\ In(kState, oArgs.data))
       => /\ Get(decrypt(secret, oResult.value.state), kState)
               = Get(oArgs.data, kState)
          /\ SearchParamsGet(oResult.value.url.query, kState) = JStr(issued.csrf)
          /\ JStr(issued.csrf) # Get(oArgs.data, kState)
  /\ (oOp = "callback" /\ oArgs.kind = "issued" /\ StateInData)
       => /\ ProviderCalled => Get(oOpened, kState) = Get(issued.data, kState)
          /\ Fetched
               => SearchParamsGet(oArgs.url.query, kState) = Get(issued.data, kState)
          /\ (oPc = "done" /\ ~oResult.threw)
               => /\ ~In(kState, oResult.value.data)
                  /\ SameMapping(oResult.value.data,
                                 RestWithout(kState, issued.data))

\* C31 happens: a callback returned whose URL carried the caller's state,
\* which is not the one authorize generated and put into its URL.
C31_Witness ==
  /\ CallbackReturned
  /\ StateInData
  /\ SearchParamsGet(oArgs.url.query, kState) = Get(issued.data, kState)
  /\ SearchParamsGet(issued.url.query, kState) = JStr(issued.csrf)
  /\ SearchParamsGet(oArgs.url.query, kState) # JStr(issued.csrf)

\* A caller's state that is no string makes callback throw its own error,
\* and the provider is not called.
CallerStateNotString ==
  (oOp = "callback" /\ oArgs.kind = "issued" /\ StateInData
     /\ Registered /\ Get(issued.data, kState).t # "str")
    => (oPc = "done" /\ oResult = Threw(InvalidStateError) /\ ~ProviderCalled)

\* A callback on a registered provider with the sealed state that authorize
\* returned for another provider.
CrossProvider ==
  /\ oOp = "callback"
  /\ Registered
  /\ oArgs.kind = "issued"
  /\ oId # issued.id

\* The token endpoint of the provider that a module makes.
TokenEndpointOf(impl) ==
  CASE impl = "x" -> "https://api.x.com/2/oauth2/token"
    [] impl = "discord" -> "https://discord.com/api/oauth2/token"
    [] impl = "github" -> "https://github.com/login/oauth/access_token"

\* C32: a sealed state is not bound to its provider: a callback for
\* provider B with the sealed state that authorize returned for provider A
\* unseals it as a callback for A would, goes on to B's _callback, and with
\* a URL that carries a code and the state of the mapping it passes the
\* comparison and sends the token request to B's token endpoint.
C32_NotBoundToProvider ==
  CrossProvider
    => /\ oOpened = decrypt(secret, issued.state)
       /\ HasStringState(oOpened)
            => /\ oPc = "provider" \/ ProviderCalled
               /\ UrlAnswersState
                    => /\ Fetched
                       /\ oCalls[Min(Fetches)].who = providerMap[oId].impl
                       /\ TokenRequest.url = TokenEndpointOf(providerMap[oId].impl)

\* C32 happens: authorize was for x, and a callback for discord with its
\* sealed state returned.
C32_Witness ==
  /\ CrossProvider
  /\ issued.id = "x" /\ oId = "discord"
  /\ UrlAnswersState
  /\ oPc = "done" /\ ~oResult.threw

\* C33: in the X and Discord providers the check for the code comes before
\* the comparison of the state: a URL without a code whose state is absent
\* or another one fails with TOKEN_EXCHANGE_FAILED and the missing-code
\* message, and a URL with a code and such a state fails with
\* INVALID_STATE.
C33_CodeCheckedFirst ==
  (UrlStateDiffers /\ OwnCallbackChecks)
    => /\ ~Fetched
       /\ IF Falsy(SearchParamsGet(oArgs.url.query, kCode))
          THEN /\ ThrewCode("TOKEN_EXCHANGE_FAILED")
               /\ oResult.error.message
                    = Text("Missing authorization code in callback")
          ELSE /\ ThrewCode("INVALID_STATE")
               /\ oResult.error.message = Text("State mismatch in callback")

\* C33 happens: the URL given to X had neither a code nor a state, and the
\* callback threw the missing-code error.
C33_Witness ==
  /\ UrlStateDiffers
  /\ providerMap[oId].impl = "x"
  /\ SearchParamsGet(oArgs.url.query, kCode) = JNull
  /\ SearchParamsGet(oArgs.url.query, kState) = JNull
  /\ ThrewCode("TOKEN_EXCHANGE_FAILED")

\* Where the id is listed in config.providers.
ListedAt(id) == {i \in DOMAIN providers : providers[i].id = id}

\* The last provider listed with the id.
LastListed(id) == providers[CHOOSE i \in ListedAt(id) : \A j \in ListedAt(id) : j <= i]

\* C35: when two providers are listed with one id, authorize and callback
\* with that id find a provider and call only the operations of the one
\* listed last, never those of the earlier one, while '~providers' lists
\* both.
C35_LastListedWins ==
  (oOp \in {"authorize", "callback"} /\ Cardinality(ListedAt(oId)) > 1)
    => /\ Registered
       /\ providerMap[oId] = LastListed(oId)
       /\ \A i \in 1..Len(oCalls) :
            oCalls[i].who \in {"authingy", LastListed(oId).impl}
       /\ oPc = "done" => oResult.error # ProviderNotFoundError(oId)
       /\ Cardinality({i \in DOMAIN tildeProviders : tildeProviders[i].id = oId}) > 1

\* C35 happens: the id x is listed twice, and a callback with it has called
\* _callback and _user of the provider listed last and returned.
C35_Witness ==
  /\ oOp = "callback" /\ oId = "x"
  /\ Cardinality(ListedAt(oId)) = 2
  /\ oPc = "done" /\ ~oResult.threw
  /\ \E i \in 1..Len(oCalls) : oCalls[i].op = "_user" /\ oCalls[i].who = "x"

\* The callback has ended after the fetch of the emails endpoint ended.
EmailsEnded ==
  oOp = "callback" /\ oPc = "done" /\ Len(oAnswers) = 3 /\ oAnswers[3].from = "emails"

\* The entry is both primary and verified.
IsPrimaryVerified(entry) ==
  Get(entry, kPrimary) = JBool(TRUE) /\ Get(entry, kVerified) = JBool(TRUE)

\* The user has the properties of the profile that the profile endpoint
\* returned.
HasProfile(user) ==
  \A k \in Keys(oUser) : In(k, user) /\ Get(user, k) = Get(oUser, k)

\* C36: github._user takes the emails as optional: when the profile request
\* succeeded and the emails request threw or was refused, it returns the
\* profile without emails and verified_email and throws nothing; when the
\* emails request succeeded, emails is the list that came back and
\* verified_email the address of its first entry that is primary and
\* verified, and there is no verified_email when no entry is.
C36_EmailsOptional ==
  EmailsEnded
    => /\ ~oResult.threw
       /\ HasProfile(oResult.value.user)
       /\ IF ~ResponseOk(oAnswers[3].status)
          THEN /\ ~In(kEmails, oResult.value.user)
               /\ ~In(kVerifiedEmail, oResult.value.user)
          ELSE /\ In(kEmails, oResult.value.user)
               /\ Get(oResult.value.user, kEmails) = oAnswers[3].body
               /\ \A i \in 1..Len(oAnswers[3].body.v) :
                    (/\ IsPrimaryVerified(oAnswers[3].body.v[i])
                     /\ \A j \in 1..(i - 1) : ~IsPrimaryVerified(oAnswers[3].body.v[j]))
                      => /\ In(kVerifiedEmail, oResult.value.user)
                         /\ Get(oResult.value.user, kVerifiedEmail)
                              = Get(oAnswers[3].body.v[i], kEmail)
               /\ (\A i \in 1..Len(oAnswers[3].body.v) :
                     ~IsPrimaryVerified(oAnswers[3].body.v[i]))
                    => ~In(kVerifiedEmail, oResult.value.user)

\* C36 happens: the list had three entries, the second and the third both
\* primary and verified, and the callback returned with the address of the
\* second.
C36_Witness ==
  /\ EmailsEnded
  /\ ResponseOk(oAnswers[3].status)
  /\ Len(oAnswers[3].body.v) = 3
  /\ IsPrimaryVerified(oAnswers[3].body.v[3])
  /\ ~oResult.threw
  /\ Get(oResult.value.user, kVerifiedEmail) = Get(oAnswers[3].body.v[2], kEmail)

\* The other case happens too: the fetch of the emails endpoint threw, and
\* the callback returned the profile.
EmailsFetchThrew ==
  /\ EmailsEnded
  /\ oAnswers[3].status = 0
  /\ ~oResult.threw
  /\ oResult.value.user = oUser

(***************************************************************************)
(* Properties of the authorization URL.                                    *)
(***************************************************************************)

kCodeChallenge ==
  Str(<< "c", "o", "d", "e", "_", "c", "h", "a", "l", "l", "e", "n", "g", "e" >>)
kCodeChallengeMethod ==
  Str(<< "c", "o", "d", "e", "_", "c", "h", "a", "l", "l", "e", "n", "g", "e",
         "_", "m", "e", "t", "h", "o", "d" >>)
kS256 == Str(<< "S", "2", "5", "6" >>)

\* The S256 transformation of RFC 7636: BASE64URL(SHA256(ASCII(verifier))).
S256(codeVerifier) == Base64UrlEncode(Sha256(Utf8Encode(codeVerifier)))

\* The names and the values of a query or of a list of entries.
NamesOf(entries) == {entries[i][1] : i \in 1..Len(entries)}
ValuesOf(entries) == {entries[i][2] : i \in 1..Len(entries)}

\* The URL binds the verifier and the state it was built for.
BindsVerifierAndState ==
  /\ SearchParamsGet(uUrl.query, kCodeChallenge) = JStr(S256(uArgs.codeVerifier))
  /\ SearchParamsGet(uUrl.query, kCodeChallengeMethod) = JStr(kS256)
  /\ SearchParamsGet(uUrl.query, kState) = JStr(uArgs.state)

\* C13: the URL that buildAuthorizationUrl builds for a code verifier V and
\* a state T carries code_challenge = S256(V), code_challenge_method = S256
\* and state = T, when no extra parameter is named like one of the three;
\* and so does the URL of authorize, in which no parameter has the code
\* verifier as its value.
C13_PkceBinding ==
  /\ (uVia = "buildAuthorizationUrl"
      /\ NamesOf(uArgs.extraParams)
           \cap {kCodeChallenge, kCodeChallengeMethod, kState} = {})
       => BindsVerifierAndState
  /\ uVia = "authorize"
       => BindsVerifierAndState /\ uArgs.codeVerifier \notin ValuesOf(uUrl.query)

\* A URL was built for a generated verifier, by buildAuthorizationUrl with
\* the extra parameters of google and by authorize.
C13_Witness ==
  /\ uPc = "built"
  /\ uArgs.codeVerifier = generateRandomCodeVerifier(1)
  /\ uVia = "authorize" \/ uArgs.extraParams = googleExtraParams

\* The standard parameters and their values for options o.
StandardParams(o) ==
  << << Str(<< "c", "l", "i", "e", "n", "t", "_", "i", "d" >>), o.clientId >>,
     << Str(<< "r", "e", "d", "i", "r", "e", "c", "t", "_", "u", "r", "i" >>), o.redirectUri >>,
     << Str(<< "r", "e", "s", "p", "o", "n", "s", "e", "_", "t", "y", "p", "e" >>), kCode >>,
     << Str(<< "s", "c", "o", "p", "e" >>), JoinWith(o.scopes, << Ord(" ") >>) >>,
     << kCodeChallenge, S256(o.codeVerifier) >>,
     << kCodeChallengeMethod, kS256 >>,
     << kState, o.state >> >>

\* The value the entries give to a name they have.
ValueIn(entries, name) ==
  entries[CHOOSE i \in 1..Len(entries) : entries[i][1] = name][2]

\* C14: the query parameters that buildAuthorizationUrl sets are exactly the
\* seven standard ones and the extra ones; an extra one named like a
\* standard one replaces its value; no name occurs twice.
C14_ExactParameters ==
  uVia = "buildAuthorizationUrl"
    => /\ NamesOf(uUrl.query)
            = NamesOf(StandardParams(uArgs)) \cup NamesOf(uArgs.extraParams)
       /\ Cardinality(NamesOf(uUrl.query)) = Len(uUrl.query)
       /\ \A i \in 1..Len(uUrl.query) :
            uUrl.query[i][2]
              = IF uUrl.query[i][1] \in NamesOf(uArgs.extraParams)
                THEN ValueIn(uArgs.extraParams, uUrl.query[i][1])
                ELSE ValueIn(StandardParams(uArgs), uUrl.query[i][1])

\* A URL was built with an extra parameter named state, and one with a new
\* extra parameter beside extra ones named like standard ones.
C14_Witness ==
  /\ uVia = "buildAuthorizationUrl"
  /\ NamesOf(uArgs.extraParams) \cap NamesOf(StandardParams(uArgs)) # {}
  /\ SearchParamsGet(uUrl.query, kState) # JStr(uArgs.state)
       \/ ~(NamesOf(uArgs.extraParams) \subseteq NamesOf(StandardParams(uArgs)))

\* The default scopes that each module declares.
DefaultScopesOf(impl) ==
  CASE impl = "x" -> xDefaultScopes
    [] impl = "discord" -> discordDefaultScopes
    [] impl = "github" -> githubDefaultScopes
    [] impl = "linkedin" -> linkedinDefaultScopes
    [] OTHER -> oidcDefaultScopes

RECURSIVE SpaceSeparated(_)
\* The scopes one after another with one space between neighbours.
SpaceSeparated(scopes) ==
  IF Len(scopes) = 0 THEN << >>
  ELSE IF Len(scopes) = 1 THEN scopes[1]
  ELSE scopes[1] \o << Ord(" ") >> \o SpaceSeparated(Tail(scopes))

\* A provider's _authorization has returned a URL.
AuthorizationBuilt == uVia = "_authorization" /\ uPc = "built"

\* C26: the scope parameter of the URL of every provider is its default
\* scopes followed by the scopes of the configuration, in that order,
\* separated by single spaces and with repetitions kept; without scopes in
\* the configuration it is the defaults.
C26_ScopeParameter ==
  AuthorizationBuilt
    => /\ SearchParamsGet(uUrl.query, Str(<< "s", "c", "o", "p", "e" >>))
            = JStr(SpaceSeparated(DefaultScopesOf(uImpl) \o uConfig.scopes.list))
       /\ (~uConfig.scopes.given \/ uConfig.scopes.list = << >>)
            => SearchParamsGet(uUrl.query, Str(<< "s", "c", "o", "p", "e" >>))
                 = JStr(SpaceSeparated(DefaultScopesOf(uImpl)))

\* C26 happens: linkedin built a URL for a configuration whose scopes
\* repeat one of its default scopes and one another.
C26_Witness ==
  /\ AuthorizationBuilt
  /\ uImpl = "linkedin"
  /\ Len(uConfig.scopes.list) = 3
  /\ uConfig.scopes.list[2] \in {DefaultScopesOf(uImpl)[i] : i \in 1..3}

\* What the providers do with an empty code verifier: x, discord, linkedin
\* and vercel throw the error with code MISSING_CODE_VERIFIER, github and
\* google one whose code is the text of its message; none builds a URL.
EmptyVerifierThrows ==
  (uVia = "_authorization" /\ Len(uArgs.codeVerifier) = 0)
    => /\ uPc = "threw" /\ uUrl = NoUrl
       /\ uError.error.name = "AuthingyError"
       /\ uImpl \in {"x", "discord", "linkedin", "vercel"}
            => /\ uError.error.code = Text("MISSING_CODE_VERIFIER")
               /\ uError.error.message = Text("Code verifier is required")
       /\ uImpl \in {"github", "google"}
            => uError.error.code = Text("codeVerifier is required")

(***************************************************************************)
(* Properties of the discovering providers.                                *)
(***************************************************************************)

\* The call holds a document: authorizationServer() or
\* getAuthorizationServer(issuer) has returned to it.
Holds(p) ==
  \/ dCalls[p].pc \in {"resolved", "fetch"}
  \/ dCalls[p].pc = "done" /\ dCalls[p].mine # NoServer

\* The call began when `as` held the document of a discovery request that
\* had succeeded.
Later(p) == dCalls[p].pc # "idle" /\ dCalls[p].cached # NoServer

\* C18: once a discovery request of a provider instance has succeeded, the
\* instance sends no further discovery request, and every later operation
\* uses the endpoint set that was cached.
C18_DiscoveryMemoized ==
  /\ dLate = 0
  /\ \A p \in Calls :
       Later(p) => /\ dCalls[p].pc # "discovery"
                   /\ Holds(p) => dCalls[p].mine = dCalls[p].cached

\* What the code does: linkedin and vercel do so; google does so in
\* _authorization and _callback once `as` is set, and its _user sends a
\* discovery request in every call.
MemoizedButGoogleUser ==
  /\ dImpl # "google" => C18_DiscoveryMemoized
  /\ \A p \in Calls :
       (dCalls[p].pc # "idle" /\ dCalls[p].cached # NoServer
          /\ UsesAuthorizationServer(dImpl, dCalls[p].op)
          /\ ~ThrowsAtOnce(dCalls[p].op, dCalls[p].codeVerifier))
         => /\ dCalls[p].pc # "discovery"
            /\ dCalls[p].mine = dCalls[p].cached
  /\ \A p \in Calls :
       (dCalls[p].pc # "idle" /\ ~UsesAuthorizationServer(dImpl, dCalls[p].op))
         => dCalls[p].pc \in {"discovery", "fetch", "done"}

\* The endpoint of the document that the operation is for.
EndpointFor(op, as) ==
  CASE op = "_authorization" -> as.authorization_endpoint
    [] op = "_callback" -> as.token_endpoint
    [] op = "_user" -> as.userinfo_endpoint

\* C20: calls of one instance that run concurrently before `as` is set are
\* safe: a call that gets a document gets a whole document that the issuer
\* published and uses the endpoint of that document; `as` is unset or one
\* whole document, and is set once a call has got one through
\* authorizationServer(); and no call sends more than one discovery
\* request.
C20_RaceSafe ==
  /\ dAs = NoServer \/ dAs \in DiscoveryDocs
  /\ dRequests <= dStarted
  /\ \A p \in Calls :
       Holds(p)
         => /\ dCalls[p].mine \in DiscoveryDocs
            /\ UsesAuthorizationServer(dImpl, dCalls[p].op)
                 => dAs \in DiscoveryDocs
            /\ (dCalls[p].pc # "resolved" /\ ~dCalls[p].result.threw)
                 => /\ dCalls[p].result.endpoint
                         = EndpointFor(dCalls[p].op, dCalls[p].mine)
                    /\ dCalls[p].op = "_authorization"
                         => dCalls[p].result.url.endpoint
                              = dCalls[p].mine.authorization_endpoint

\* C20 happens: two calls began with `as` unset, each sent a discovery
\* request, they got different documents, both went on, and `as` is one of
\* the two.
C20_Witness ==
  \E p, q \in Calls :
    /\ p # q
    /\ dCalls[p].pc \in {"fetch", "done"} /\ dCalls[q].pc \in {"fetch", "done"}
    /\ ~dCalls[p].result.threw /\ ~dCalls[q].result.threw
    /\ dCalls[p].cached = NoServer /\ dCalls[q].cached = NoServer
    /\ UsesAuthorizationServer(dImpl, dCalls[p].op)
    /\ UsesAuthorizationServer(dImpl, dCalls[q].op)
    /\ dCalls[p].mine # dCalls[q].mine
    /\ dAs \in {dCalls[p].mine, dCalls[q].mine}
    /\ dRequests >= 2

\* A call of _authorization that has thrown.
AuthorizationThrew(p) ==
  /\ dCalls[p].op = "_authorization"
  /\ dCalls[p].pc = "done"
  /\ dCalls[p].result.threw

\* The call threw an AuthingyError with this code and this message.
CallThrewCode(p, code, message) ==
  /\ AuthorizationThrew(p)
  /\ dCalls[p].result.error.name = "AuthingyError"
  /\ dCalls[p].result.error.code = Text(code)
  /\ dCalls[p].result.error.message = Text(message)

\* The call of _authorization was given an empty code verifier.
EmptyVerifier(p) ==
  dCalls[p].op = "_authorization" /\ dCalls[p].pc # "idle"
    /\ Len(dCalls[p].codeVerifier) = 0

\* The call of _authorization got a document without an authorization
\* endpoint.
NoAuthorizationEndpoint(p) ==
  /\ dCalls[p].op = "_authorization"
  /\ dCalls[p].pc = "done"
  /\ dCalls[p].mine # NoServer
  /\ dCalls[p].mine.authorization_endpoint = ""

\* C24: for every provider, _authorization with an empty code verifier
\* throws an AuthingyError with code MISSING_CODE_VERIFIER before it sends a
\* discovery request or builds a URL, and with a document that has no
\* authorization endpoint it throws one with code
\* MISSING_AUTHORIZATION_ENDPOINT.
C24_AuthorizationFailures ==
  \A p \in Calls :
    /\ EmptyVerifier(p)
         => /\ CallThrewCode(p, "MISSING_CODE_VERIFIER", "Code verifier is required")
            /\ dCalls[p].mine = NoServer
            /\ dCalls[p].result.url = NoUrl
    /\ NoAuthorizationEndpoint(p)
         => /\ CallThrewCode(p, "MISSING_AUTHORIZATION_ENDPOINT",
                             "Authorization endpoint not found")
            /\ dCalls[p].result.url = NoUrl

\* What the code does: linkedin and vercel throw these errors; google
\* throws AuthingyErrors whose code is the text of the message; in every
\* case the call with an empty code verifier throws before any discovery
\* request and no URL is built.
AuthorizationFailuresButGoogle ==
  /\ dImpl # "google" => C24_AuthorizationFailures
  /\ \A p \in Calls :
       /\ EmptyVerifier(p)
            => /\ AuthorizationThrew(p)
               /\ dCalls[p].result.error = MissingVerifierError(dImpl)
               /\ dCalls[p].mine = NoServer
               /\ dCalls[p].result.url = NoUrl
       /\ NoAuthorizationEndpoint(p)
            => /\ AuthorizationThrew(p)
               /\ dCalls[p].result.error = MissingEndpointError(dImpl)
               /\ dCalls[p].result.url = NoUrl
  /\ dImpl = "google"
       => \A p \in Calls :
            AuthorizationThrew(p) => dCalls[p].result.error.code \notin AuthingyErrorCode

\* Calls with an empty code verifier send no discovery request: there are
\* at most as many requests as calls that were given a verifier.
NoDiscoveryWithoutVerifier ==
  (dStarted = 1 /\ \E p \in Calls : EmptyVerifier(p)) => dRequests = 0

\* The call is a _callback whose URL carries another state than the one it
\* was given.
ForgedCallback(p) ==
  /\ dCalls[p].op = "_callback"
  /\ SearchParamsGet(dCalls[p].url.query, kState) # JStr(oidcState)

\* The discovering providers check the state before the code is spent: a
\* _callback with such a URL is never at its token request, and once it has
\* resumed after authorizationServer() it has thrown with no token endpoint
\* requested.
StateBeforeTokenDiscovering ==
  \A p \in Calls :
    ForgedCallback(p)
      => /\ dCalls[p].pc # "fetch"
         /\ dCalls[p].pc = "done"
              => (dCalls[p].result.threw /\ dCalls[p].result.endpoint = "")

\* That case happens: the document was discovered, and the _callback threw
\* the library's error about the state.
ForgedCallbackThrew ==
  \E p \in Calls :
    /\ ForgedCallback(p)
    /\ dCalls[p].pc = "done"
    /\ dCalls[p].mine # NoServer
    /\ dCalls[p].result.error.name = "OperationProcessingError"

\* In this step the discovery request of call p failed.
DiscoveryFailed(p) == dCalls[p].pc = "discovery" /\ dCalls'[p].pc = "done"

\* In this step call p began, with `as` unset, an operation that goes
\* through authorizationServer().
BeganUncached(p) ==
  /\ dCalls[p].pc = "idle" /\ dCalls'[p].pc # "idle"
  /\ dAs = NoServer
  /\ UsesAuthorizationServer(dImpl, dCalls'[p].op)
  /\ ~ThrowsAtOnce(dCalls'[p].op, dCalls'[p].codeVerifier)

\* C34: a failed discovery is not cached: the step in which a discovery
\* request fails leaves `as` as it was and the operation throws the
\* failure; an operation that begins while `as` is unset sends a discovery
\* request of its own; and `as` is only ever unset or a whole document of a
\* discovery request that succeeded.
C34_FailureNotCached ==
  [][ /\ dAs' = NoServer \/ dAs' \in DiscoveryDocs
      /\ dAs' # dAs => \E p \in Calls : dCalls'[p].mine = dAs'
      /\ ~dSucceeded' => dAs' = NoServer
      /\ \A p \in Calls :
           /\ DiscoveryFailed(p)
                => /\ dAs' = dAs
                   /\ dCalls'[p].result.threw
                   /\ dCalls'[p].result.error.name = "OperationProcessingError"
           /\ BeganUncached(p)
                => /\ dCalls'[p].pc = "discovery"
                   /\ dRequests' = dRequests + 1 ]_vars

\* C34 happens: the first call of a linkedin instance was settled and no
\* discovery request has succeeded, so its request failed; the next call took
\* its place and has sent the second discovery request.
C34_Witness ==
  /\ dImpl = "linkedin"
  /\ dStarted = 2
  /\ dCalls[1].pc = "discovery"
  /\ dCalls[2].pc = "idle"
  /\ dRequests = 2
  /\ ~dSucceeded
  /\ dAs = NoServer

(***************************************************************************)
(* Properties of concurrent invocations.                                   *)
(***************************************************************************)

\* The status with which that endpoint answered invocation v.
AnswerOf(v, from) ==
  IF \E k \in 1..Len(v.answers) : v.answers[k].from = from
  THEN v.answers[CHOOSE k \in 1..Len(v.answers) : v.answers[k].from = from].status
  ELSE 0

\* What callback returns or throws when it runs alone with the arguments of
\* invocation v and the responses that v got: from the profile response
\* on, from the token response on, from provider._callback on, and from the
\* unsealing on.
AloneAfterUser(v, opened, token, r) ==
  IF r.pc = "done" THEN r.result
  ELSE callbackEmails(v.id, r.calls, opened, token, r.result.value,
                      AnswerOf(v, "emails")).result

AloneAfterToken(v, opened, r) ==
  IF r.pc = "done" THEN r.result
  ELSE AloneAfterUser(v, opened, r.result.value,
                      callbackUser(v.id, r.calls, opened, r.result.value,
                                   AnswerOf(v, "user")))

AloneAfterProvider(v, opened, r) ==
  IF r.pc = "done" THEN r.result
  ELSE AloneAfterToken(v, opened,
                       callbackToken(v.id, r.calls, opened, AnswerOf(v, "token")))

AloneAfterOpen(v, r) ==
  IF r.pc = "done" THEN r.result
  ELSE AloneAfterProvider(v, r.decryptedState,
                          callbackProvider(v.id, r.calls, r.decryptedState,
                                           RedirectUrl(r.decryptedState),
                                           oidcCodeVerifier))

\* What the invocation returns or throws when it runs alone: a function of
\* its arguments, of the values drawn for it and of the responses to its
\* own requests.
Alone(v) ==
  IF v.op = "authorize"
  THEN authorize(v.id, v.data, v.state, v.iv, v.codeVerifier).result
  ELSE AloneAfterOpen(v, callback(v.id, v.encryptedWithState))

\* C19: invocations of authorize and callback are independent under every
\* interleaving: what each returns or throws is what it returns or throws
\* when it runs alone with its own arguments, its own random values and the
\* responses to its own requests, also when the invocations are on the
\* same provider.
C19_Independent ==
  \A i \in Slots : nInv[i].pc = "done" => nInv[i].result = Alone(nInv[i])

\* C19 happens: two callbacks on one provider were in flight together, and
\* both returned, each its own data.
C19_Witness ==
  \E i, j \in Slots :
    /\ i # j
    /\ nInv[i].op = "callback" /\ nInv[j].op = "callback"
    /\ nInv[i].id = nInv[j].id
    /\ nInv[i].pc = "done" /\ nInv[j].pc = "done"
    /\ ~nInv[i].result.threw /\ ~nInv[j].result.threw
    /\ nInv[i].result.value.data # nInv[j].result.value.data

\* Invocation i is an authorize call that has returned.
ReturnedFromAuthorize(i) ==
  nInv[i].op = "authorize" /\ nInv[i].pc = "done" /\ ~nInv[i].result.threw

\* C30: no two authorize calls return the same code verifier, the same
\* state parameter in the URL or the same sealed state, whether they are on
\* one provider or on two and with the same extra data or not.
C30_FreshPerCall ==
  \A i, j \in Slots :
    (i # j /\ ReturnedFromAuthorize(i) /\ ReturnedFromAuthorize(j))
      => /\ nInv[i].result.value.codeVerifier # nInv[j].result.value.codeVerifier
         /\ SearchParamsGet(nInv[i].result.value.url.query, kState)
              # SearchParamsGet(nInv[j].result.value.url.query, kState)
         /\ nInv[i].result.value.state # nInv[j].result.value.state

\* C30 happens: two authorize calls on one provider with the same extra
\* data were in flight together and both returned, each with a state
\* parameter in its URL.
C30_Witness ==
  \E i, j \in Slots :
    /\ i # j
    /\ ReturnedFromAuthorize(i) /\ ReturnedFromAuthorize(j)
    /\ nInv[i].id = nInv[j].id
    /\ nInv[i].data = nInv[j].data
    /\ SearchParamsGet(nInv[i].result.value.url.query, kState) # JNull
    /\ nIssued = {nInv[i].result.value.state, nInv[j].result.value.state}

(***************************************************************************)
(* Properties of the example server.                                       *)
(***************************************************************************)

\* The request is one of the callback route.
AtCallbackRoute == vRoute = "callback"

\* Both cookies are as the request found them.
CookiesInPlace == vCookies = vReq

\* C37: the callback route of the example server answers 400 and does not
\* call auth.callback when the state cookie or the code-verifier cookie is
\* missing; it deletes the two cookies only once auth.callback has
\* returned; and when auth.callback throws both cookies stay as they were.
C37_CookiesAfterSuccess ==
  AtCallbackRoute
    => /\ (NoValue(vReq.state) \/ NoValue(vReq.codeVerifier))
            => /\ vPc = "responded" /\ vResponse = 400
               /\ ~vCalled
               /\ CookiesInPlace
       /\ ~(NoValue(vReq.state) \/ NoValue(vReq.codeVerifier))
            => /\ vCalled
               /\ vPc = "callback" => CookiesInPlace
               /\ vPc = "responded"
                    => \/ vResponse = 200 /\ vCookies = Cookies(NoCookie, NoCookie)
                       \/ vResponse = 500 /\ CookiesInPlace
       /\ ~CookiesInPlace => (vCalled /\ vPc = "responded" /\ vResponse = 200)

\* C37 happens: the cookies that the authorize route set came back,
\* auth.callback threw, and both cookies are still there.
C37_Witness ==
  /\ AtCallbackRoute
  /\ vPc = "responded" /\ vResponse = 500
  /\ vCalled
  /\ vProvider = "github"
  /\ ~CallbackThrowsAtOnce(callback(vProvider, vReq.state.value))
  /\ vCookies.state.set /\ vCookies.codeVerifier.set

\* The other cases happen too: a request with the state cookie alone was
\* answered 400, and one with both cookies was answered 200.
OneCookieRefused ==
  /\ AtCallbackRoute /\ vResponse = 400
  /\ ~NoValue(vReq.state) /\ ~vReq.codeVerifier.set

CallbackRouteSucceeded ==
  AtCallbackRoute /\ vResponse = 200 /\ ~vCookies.state.set

(***************************************************************************)
(* Properties of the sealed format.                                        *)
(***************************************************************************)

\* The bytes encrypt enciphered in the latest call: the UTF-8 of the JSON
\* text of the mapping.
PlainBytes == Utf8Encode(JsonStringify(cData))

\* The ciphertext and the tag of the latest call of encrypt.
CipherBytes == GcmCrypt(keyToBuffer(cKey), cIv, PlainBytes)
TagBytes == GcmTag(keyToBuffer(cKey), cIv, CipherBytes)

\* encrypt has just returned cSealed for cData.
Sealed == cPc = "sealed" /\ cText = cSealed /\ cRounds = 0

\* C38: what encrypt returns is the hex of the nonce (32 characters), then
\* of the ciphertext (two characters for each byte of the plaintext), then
\* of the tag (32 characters); it is never shorter than the 66 characters
\* decrypt asks for, and the three substrings decrypt takes at its fixed
\* offsets decode to the nonce, the ciphertext and the tag encrypt wrote.
C38_FormatConsistent ==
  Sealed
    => /\ Len(cSealed) = 32 + 2 * Len(PlainBytes) + 32
       /\ minLength = 66
       /\ Len(cSealed) >= minLength
       /\ decryptSplit(cSealed).iv = HexEncode(cIv)
       /\ decryptSplit(cSealed).encrypted = HexEncode(CipherBytes)
       /\ decryptSplit(cSealed).tag = HexEncode(TagBytes)
       /\ cSealed = decryptSplit(cSealed).iv \o decryptSplit(cSealed).encrypted
                      \o decryptSplit(cSealed).tag
       /\ HexDecode(decryptSplit(cSealed).iv) = cIv
       /\ HexDecode(decryptSplit(cSealed).encrypted) = CipherBytes
       /\ HexDecode(decryptSplit(cSealed).tag) = TagBytes

\* C38 happens: the empty mapping was sealed, to the shortest string
\* encrypt returns.
C38_Witness ==
  /\ Sealed
  /\ cData = JObj(<< >>)
  /\ Len(cSealed) = 68
  /\ HexDecode(decryptSplit(cSealed).encrypted) = CipherBytes

\* A plaintext with a character of two bytes was sealed too.
TwoByteCharacterSealed == Sealed /\ Len(PlainBytes) > Len(JsonStringify(cData))

=============================================================================
